---- MODULE Spec2Model ----
(***************************************************************************)
(* scheng: the patch graph (crates/scheng-graph) and the backend-agnostic  *)
(* output naming contract (crates/scheng-runtime/src/runtime_contract.rs). *)
(*                                                                         *)
(* Spec       the Graph object driven through its whole public API         *)
(*            (add_node, connect, connect_named, compile), connect being   *)
(*            called with well-formed and ill-formed endpoints.            *)
(* SpecKinds  graphs over every NodeKind, wired by name and compiled.      *)
(* SpecNamed  add_node and connect_named, the arguments of each            *)
(*            connect_named call being recorded.                           *)
(* SpecNames  plan_output_names applied to bounded lists of PixelsOut      *)
(*            entries.                                                     *)
(*                                                                         *)
(* The OpenGL executor (crates/scheng-runtime-glow): execute_plan and      *)
(* execute_plan_outputs run on plans compiled from graphs built by a host. *)
(*                                                                         *)
(* SpecOutputs   graphs of sources, passes and outputs; both entry points, *)
(*               with every naming of the PixelsOut nodes.                 *)
(* SpecBind      passes and mixers wired by port name, fed by passes and   *)
(*               host textures.                                            *)
(* SpecPrograms  two frames with every assignment of shader texts.         *)
(* SpecSizes     two frames with every pair of frame sizes.                *)
(* SpecPasses    graphs over the Processor and Mixer kinds.                *)
(* SpecShaders   passes with and without override, built-in shader and     *)
(*               ShaderSource edge.                                        *)
(* SpecRebind    three frames with the shader texts changing.              *)
(* SpecTeardown  frames over an optional video source, then destroy.       *)
(* SpecVideo     frames over a video source with the frame time moving.    *)
(* SpecKeptPlan  a plan run again after edges were added to its graph.     *)
(*                                                                         *)
(* The sinks of the executor and the bank configuration:                   *)
(*                                                                         *)
(* SpecPatchbay  PatchbaySink: add_route and consume_named.                *)
(* SpecTap       HistoryTapSink: a ring of the last frames.                *)
(* SpecReadback  ReadbackSink: readback every stride-th frame.             *)
(* SpecBanks     BankSet::from_json_path (crates/scheng-runtime) applied   *)
(*               to bounded documents.                                     *)
(* SpecDecoder   VideoDecoder (crates/scheng-input-video): the decode      *)
(*               worker, polls and drop.  SpecDecoderFair adds that the    *)
(*               worker is scheduled and its reads return.                 *)
(* SpecControl   ControlLayer (crates/scrubbable_controls): key presses    *)
(*               and OSC messages.                                         *)
(***************************************************************************)
EXTENDS Integers, Sequences, FiniteSets, TLC

VARIABLES
    next_node,   \* Graph.next_node: u32
    next_port,   \* Graph.next_port: u32
    nodes,       \* Graph.nodes: HashMap<NodeId, Node>, a function id -> Node
    edges,       \* Graph.edges: Vec<Edge>
    lastOp,      \* the last call made on the graph and what it returned
    pixels_out,  \* the slice handed to plan_output_names
    name_plan,   \* what plan_output_names returned for pixels_out
    state,       \* RuntimeState: fs_tri, programs, program_cache, targets,
                 \* video_nodes
    gl,          \* the objects of the glow::Context the runtime draws with
    lastExec,    \* the last execute_plan / execute_plan_outputs call and
                 \* what it returned
    routes,      \* PatchbaySink.routes: HashMap<String, Vec<Box<dyn OutputSink>>>
    sink_calls,  \* for every sink on a route, the outputs it has consumed
    tap,         \* HistoryTapSink: frames, write_idx and the Vec's capacity
    readback,    \* ReadbackSink: enabled, stride, frame_counter, last_w, last_h
    lastSink,    \* the last call made on a sink and what it did
    bank_doc,    \* the JSON document handed to BankSet::from_json_path
    bank_set,    \* what from_json_path returned for bank_doc
    layer,       \* ControlLayer: transport, color, keymap and oscmap
    decoder      \* a VideoDecoder, its decode worker and the ffmpeg child

vars == <<next_node, next_port, nodes, edges, lastOp, pixels_out, name_plan,
          state, gl, lastExec, routes, sink_calls, tap, readback, lastSink,
          bank_doc, bank_set, layer, decoder>>

graphVars == <<next_node, next_port, nodes, edges, lastOp>>

nameVars == <<pixels_out, name_plan>>

execVars == <<state, gl, lastExec>>

sinkVars == <<routes, sink_calls, tap, readback, lastSink>>

bankVars == <<bank_doc, bank_set>>

----------------------------------------------------------------------------
(* Bounds of the model.                                                    *)

\* add_node is called while the graph holds fewer nodes than this.  The u32
\* counters next_node and next_port therefore stay far below 2^32 and their
\* increments never wrap.
MaxNodes == 3

\* connect / connect_named are called while the edge list they leave holds
\* at most this many edges.
MaxEdges == 2

\* Where connect is called with ill-formed endpoints, or the arguments of
\* connect_named are recorded, add_node is called while the ports it creates
\* keep the graph's port count within this.
MaxPorts == 4

\* Length of the slice handed to plan_output_names.
MaxOuts == 3

\* Where frames are executed, add_node is called while the graph holds fewer
\* nodes than MaxExecNodes and connect_named while the edge list it leaves
\* holds at most MaxExecEdges edges.
MaxExecNodes == 4

MaxExecEdges == 3

\* execute_plan / execute_plan_outputs are called at most this many times on
\* one RuntimeState.
MaxFrames == 2

----------------------------------------------------------------------------
(* Vocabulary: NodeKind, NodeClass, PortDir.                               *)

SourceKinds == {"ShaderSource", "NoiseSource", "PreviousFrame",
                "TextureInputPass", "VideoDecodeSource"}

ProcessorKinds == {"ShaderPass", "ColorCorrect", "Blur", "Keyer", "Feedback"}

MixerKinds == {"Crossfade", "Add", "Multiply", "KeyMix", "MatrixMix4"}

OutputKinds == {"Window", "TextureOut", "PixelsOut", "Syphon", "Spout",
                "Recorder", "Ndi", "Rtsp"}

NodeKind == SourceKinds \cup ProcessorKinds \cup MixerKinds \cup OutputKinds

PortDir == {"In", "Out"}

\* NodeKind::class
class(kind) ==
    CASE kind \in SourceKinds    -> "Source"
      [] kind \in ProcessorKinds -> "Processor"
      [] kind \in MixerKinds     -> "Mixer"
      [] kind \in OutputKinds    -> "Output"

\* One kind of each class: the kinds add_node is called with where graphs
\* of every shape are built.
CoreKinds == {"ShaderSource", "ShaderPass", "Crossfade", "PixelsOut"}

----------------------------------------------------------------------------
(* Helpers on sequences.                                                   *)

Range(s) == {s[i] : i \in DOMAIN s}

\* slice.iter().find(..): the first of the indices I that satisfy the
\* predicate, 0 if there is none.
FirstIndex(I) ==
    IF I = {} THEN 0 ELSE CHOOSE i \in I : \A j \in I : i <= j

\* Every order in which a HashMap may iterate over the keys S.
RECURSIVE IterOrders(_)
IterOrders(S) ==
    IF S = {} THEN {<<>>}
    ELSE UNION {{<<x>> \o t : t \in IterOrders(S \ {x})} : x \in S}

\* Mutant of InsertSorted: the comparison is reversed.
RECURSIVE InsertSortedDescending(_, _)
InsertSortedDescending(x, s) ==
    IF s = <<>> THEN <<x>>
    ELSE IF x > Head(s) THEN <<x>> \o s
    ELSE <<Head(s)>> \o InsertSortedDescending(x, Tail(s))

\* Insert x into the ascending sequence s, after every element not above it
\* (sort_by_key is stable).
RECURSIVE InsertSorted(_, _)
InsertSorted(x, s) ==
    IF s = <<>> THEN <<x>>
    ELSE IF x < Head(s) THEN <<x>> \o s
    ELSE <<Head(s)>> \o InsertSorted(x, Tail(s))

RECURSIVE SortAscending(_)
SortAscending(s) ==
    IF s = <<>> THEN <<>>
    ELSE InsertSorted(s[Len(s)], SortAscending(SubSeq(s, 1, Len(s) - 1)))

----------------------------------------------------------------------------
(* Graph::add_node and Graph::new_port.                                    *)

\* Mutant of PortLayout: MatrixMix4 is not taken out of the class convention.
PortLayoutByClassOnly(kind) ==
    CASE class(kind) = "Source"    -> << <<"out", "Out">> >>
      [] class(kind) = "Processor" -> << <<"in", "In">>, <<"out", "Out">> >>
      [] class(kind) = "Mixer"     -> << <<"a", "In">>, <<"b", "In">>,
                                         <<"out", "Out">> >>
      [] class(kind) = "Output"    -> << <<"in", "In">> >>

\* The (name, dir) list of the ports add_node creates for a kind, in order.
PortLayout(kind) ==
    IF kind = "MatrixMix4"
    THEN << <<"in0", "In">>, <<"in1", "In">>, <<"in2", "In">>, <<"in3", "In">>,
            <<"out", "Out">> >>
    ELSE CASE class(kind) = "Source"    -> << <<"out", "Out">> >>
           [] class(kind) = "Processor" -> << <<"in", "In">>, <<"out", "Out">> >>
           [] class(kind) = "Mixer"     -> << <<"a", "In">>, <<"b", "In">>,
                                              <<"out", "Out">> >>
           [] class(kind) = "Output"    -> << <<"in", "In">> >>

\* Mutant of NewPort: next_port is not advanced between the ports of a node.
NewPortNoAdvance(np, i, nameDir) ==
    [id |-> np, name |-> nameDir[1], dir |-> nameDir[2]]

\* new_port called for the i-th port of a layout when next_port was np.
NewPort(np, i, nameDir) ==
    [id |-> np + i - 1, name |-> nameDir[1], dir |-> nameDir[2]]

NewPorts(np, kind) ==
    [i \in 1..Len(PortLayout(kind)) |-> NewPort(np, i, PortLayout(kind)[i])]

\* A call of add_node.
add_node(kind) ==
    /\ LET id    == next_node
           ports == NewPorts(next_port, kind)
           node  == [id |-> id, kind |-> kind, ports |-> ports]
       IN  /\ next_node' = next_node + 1
           /\ next_port' = next_port + Len(ports)
           /\ nodes' = [n \in DOMAIN nodes \cup {id} |->
                           IF n = id THEN node ELSE nodes[n]]
           /\ lastOp' = [op |-> "add_node", ok |-> TRUE, err |-> "", ret |-> id,
                         args |-> <<>>, repeat |-> FALSE]
    /\ UNCHANGED <<edges, nameVars, execVars, sinkVars,
                   bankVars, layer, decoder>>

\* add_node called while the graph holds fewer than MaxNodes nodes.
AddNode(kind) ==
    /\ Cardinality(DOMAIN nodes) < MaxNodes
    /\ add_node(kind)

----------------------------------------------------------------------------
(* Graph::find_port, Graph::connect, Graph::connect_named.                 *)

NoPort == -1

Endpoint(node, port, dir) == [node |-> node, port |-> port, dir |-> dir]

\* Mutant of find_port: the direction is not compared.
find_port_any_dir(node, name, dir) ==
    IF node \notin DOMAIN nodes THEN -1
    ELSE LET ps == nodes[node].ports
             i  == FirstIndex({k \in DOMAIN ps : ps[k].name = name})
         IN  IF i = 0 THEN -1 ELSE ps[i].id

\* find_port: the id of the first port of `node` with this dir and name.
find_port(node, name, dir) ==
    IF node \notin DOMAIN nodes THEN NoPort
    ELSE LET ps == nodes[node].ports
             i  == FirstIndex({k \in DOMAIN ps :
                                  ps[k].dir = dir /\ ps[k].name = name})
         IN  IF i = 0 THEN NoPort ELSE ps[i].id

\* n.ports.iter().find(|p| p.id == port).is_some()
PortOnNode(node, port) ==
    /\ node \in DOMAIN nodes
    /\ \E p \in Range(nodes[node].ports) : p.id = port

\* self.edges.iter().any(|e| e.to == to)
HasDriver(to) == \E e \in Range(edges) : e.to = to

\* Mutant of ConnectError: the check for an existing driver is left out.
ConnectErrorNoDriverCheck(from, to) ==
    IF from.dir # "Out" THEN "connect: from endpoint must be Out"
    ELSE IF to.dir # "In" THEN "connect: to endpoint must be In"
    ELSE IF from.node \notin DOMAIN nodes \/ to.node \notin DOMAIN nodes
         THEN "connect: node not found"
    ELSE IF ~PortOnNode(from.node, from.port)
         THEN "connect: from port not found on node"
    ELSE IF ~PortOnNode(to.node, to.port)
         THEN "connect: to port not found on node"
    ELSE ""

\* The error connect returns, "" when it pushes the edge.
ConnectError(from, to) ==
    IF from.dir # "Out" THEN "connect: from endpoint must be Out"
    ELSE IF to.dir # "In" THEN "connect: to endpoint must be In"
    ELSE IF from.node \notin DOMAIN nodes \/ to.node \notin DOMAIN nodes
         THEN "connect: node not found"
    ELSE IF ~PortOnNode(from.node, from.port)
         THEN "connect: from port not found on node"
    ELSE IF ~PortOnNode(to.node, to.port)
         THEN "connect: to port not found on node"
    ELSE IF HasDriver(to)
         THEN "connect: input already connected"
    ELSE ""

\* Mutant of ConnectEdges: the edge is pushed before the driver check.
ConnectEdgesPushEarly(from, to) ==
    IF ConnectError(from, to) \in {"", "connect: input already connected"}
    THEN Append(edges, [from |-> from, to |-> to])
    ELSE edges

\* The edge list connect leaves behind.
ConnectEdges(from, to) ==
    IF ConnectError(from, to) = ""
    THEN Append(edges, [from |-> from, to |-> to])
    ELSE edges

Connect(from, to) ==
    /\ Len(ConnectEdges(from, to)) <= MaxEdges
    /\ edges' = ConnectEdges(from, to)
    /\ lastOp' = [op |-> "connect", ok |-> ConnectError(from, to) = "",
                  err |-> ConnectError(from, to), ret |-> 0, args |-> <<>>,
                  repeat |-> FALSE]
    /\ UNCHANGED <<next_node, next_port, nodes, nameVars, execVars, sinkVars,
                   bankVars, layer, decoder>>

\* The error connect_named returns, "" on success.
ConnectNamedError(from_node, from_port, to_node, to_port) ==
    LET from_pid == find_port(from_node, from_port, "Out")
        to_pid   == find_port(to_node, to_port, "In")
    IN  IF from_pid = NoPort THEN "connect_named: from port not found"
        ELSE IF to_pid = NoPort THEN "connect_named: to port not found"
        ELSE ConnectError(Endpoint(from_node, from_pid, "Out"),
                          Endpoint(to_node, to_pid, "In"))

\* The edge list connect_named leaves behind.
ConnectNamedEdges(from_node, from_port, to_node, to_port) ==
    LET from_pid == find_port(from_node, from_port, "Out")
        to_pid   == find_port(to_node, to_port, "In")
    IN  IF from_pid = NoPort \/ to_pid = NoPort THEN edges
        ELSE ConnectEdges(Endpoint(from_node, from_pid, "Out"),
                          Endpoint(to_node, to_pid, "In"))

\* A call of connect_named; `args` is what lastOp keeps of its arguments.
connect_named(from_node, from_port, to_node, to_port, args) ==
    /\ edges' = ConnectNamedEdges(from_node, from_port, to_node, to_port)
    /\ lastOp' = [op |-> "connect_named",
                  ok |-> ConnectNamedError(from_node, from_port, to_node, to_port) = "",
                  err |-> ConnectNamedError(from_node, from_port, to_node, to_port),
                  ret |-> 0, args |-> args, repeat |-> FALSE]
    /\ UNCHANGED <<next_node, next_port, nodes, nameVars, execVars, sinkVars,
                   bankVars, layer, decoder>>

\* connect_named called while the edge list it leaves stays within MaxEdges.
ConnectNamedCall(from_node, from_port, to_node, to_port, args) ==
    /\ Len(ConnectNamedEdges(from_node, from_port, to_node, to_port)) <= MaxEdges
    /\ connect_named(from_node, from_port, to_node, to_port, args)

ConnectNamed(from_node, from_port, to_node, to_port) ==
    ConnectNamedCall(from_node, from_port, to_node, to_port, <<>>)

\* connect_named with its arguments recorded in lastOp.args.
ConnectNamedObserved(from_node, from_port, to_node, to_port) ==
    ConnectNamedCall(from_node, from_port, to_node, to_port,
                     <<from_node, from_port, to_node, to_port>>)

----------------------------------------------------------------------------
(* Graph::compile.                                                         *)

\* Mutant of OutputUndriven: the kind is matched against PixelsOut instead
\* of the Output class.
OutputUndrivenPixelsOutOnly(n) ==
    /\ nodes[n].kind = "PixelsOut"
    /\ ~HasDriver(Endpoint(nodes[n].id, nodes[n].ports[1].id, "In"))

\* The check the validation loop makes on node n: it is of class Output and
\* no edge's `to` is the endpoint of its first In port.
OutputUndriven(n) ==
    /\ class(nodes[n].kind) = "Output"
    /\ LET ps == nodes[n].ports
           i  == FirstIndex({k \in DOMAIN ps : ps[k].dir = "In"})
       IN  /\ i # 0
           /\ ~HasDriver(Endpoint(nodes[n].id, nodes[n].ports[i].id, "In"))

\* Mutant of SortNodeIds: the keys are left in the HashMap's iteration order.
KeepIterOrder(keys) == keys

\* nodes.sort_by_key(|id| id.0)
SortNodeIds(keys) == SortAscending(keys)

\* What compile returns when the HashMap iterates its keys in order `keys`.
CompileResult(keys) ==
    IF \E i \in DOMAIN keys : OutputUndriven(keys[i])
    THEN [ok |-> FALSE, err |-> "compile: output input not connected",
          plan |-> [nodes |-> <<>>, edges |-> <<>>]]
    ELSE [ok |-> TRUE, err |-> "",
          plan |-> [nodes |-> SortNodeIds(keys), edges |-> edges]]

\* lastOp.repeat: this compile call directly follows another compile call.
Compile ==
    /\ \E keys \in IterOrders(DOMAIN nodes) :
          lastOp' = [op |-> "compile", ok |-> CompileResult(keys).ok,
                     err |-> CompileResult(keys).err,
                     ret |-> CompileResult(keys).plan, args |-> <<>>,
                     repeat |-> (lastOp.op = "compile")]
    /\ UNCHANGED <<next_node, next_port, nodes, edges, nameVars, execVars, sinkVars,
                   bankVars, layer, decoder>>

----------------------------------------------------------------------------
(* The arguments the graph's API is called with.                           *)

\* The node ids a caller passes: those of the graph and one that is not.
NodeArgs == DOMAIN nodes \cup {next_node}

PortIdsOf(n) == {p.id : p \in Range(nodes[n].ports)}

\* <<node, port id>> of every port of direction d.
PortsWithDir(d) ==
    {np \in (DOMAIN nodes) \X (0..next_port) :
        \E p \in Range(nodes[np[1]].ports) : p.id = np[2] /\ p.dir = d}

Lowest(S) ==
    IF S = {} THEN {} ELSE {CHOOSE x \in S : \A y \in S : x[2] <= y[2]}

\* The lowest port id that is no port of node n.
ForeignPort(n) ==
    LET others == (0..next_port) \ PortIdsOf(n)
    IN  CHOOSE p \in others : \A q \in others : p <= q

Other(d) == IF d = "In" THEN "Out" ELSE "In"

\* The endpoints a caller passes to connect as the one that has to be
\* declared `want` (Out for `from`, In for `to`):
\*   every port of that direction, on its own node, declared `want`;
\*   the lowest-numbered port of the other direction, on its own node,
\*     declared `want`;
\*   on every node, the lowest port id that is no port of the node;
\*   a port of a node id that is not in the graph;
\*   port 0 on node 0, declared the other way.
EndpointArgs(want) ==
    {Endpoint(np[1], np[2], want) : np \in PortsWithDir(want)}
    \cup {Endpoint(np[1], np[2], want) : np \in Lowest(PortsWithDir(Other(want)))}
    \cup {Endpoint(n, ForeignPort(n), want) : n \in DOMAIN nodes}
    \cup {Endpoint(next_node, 0, want), Endpoint(0, 0, Other(want))}

FromArgs == EndpointArgs("Out")

ToArgs == EndpointArgs("In")

\* connect_named is called on node n with the name of any of its ports and
\* with a name no port has.
NameArgs(n) ==
    {"nope"} \cup
    (IF n \in DOMAIN nodes THEN {p.name : p \in Range(nodes[n].ports)}
     ELSE {"out", "in"})

\* add_node of a kind keeps the port count within MaxPorts.
WithinPorts(kind) == next_port + Len(PortLayout(kind)) <= MaxPorts

----------------------------------------------------------------------------
(* Spec: the graph driven through its whole public API.                    *)

NoOp == [op |-> "new", ok |-> TRUE, err |-> "", ret |-> 0, args |-> <<>>,
         repeat |-> FALSE]

NoNamePlan == [done |-> FALSE]

\* RuntimeState::new: the four maps are empty; fs_tri tells whether the
\* state holds the vertex array and the buffer of its fullscreen triangle.
NewRuntimeState ==
    [fs_tri |-> TRUE, programs |-> <<>>, program_cache |-> <<>>,
     targets |-> <<>>, video_nodes |-> <<>>]

\* A glow::Context on which the runtime has created nothing yet:
\*   next      the name the next created object gets,
\*   img       texture name -> what the texture holds,
\*   compiled  the (vertex, fragment) texts compile_program has linked, in
\*             the order of the calls.
\*   deleted   the objects handed to delete_program, delete_framebuffer and
\*             delete_texture, in the order of the calls.
NewContext == [next |-> 1, img |-> <<>>, compiled |-> <<>>, deleted |-> <<>>]

NoOutput == [tex |-> 0, fbo |-> 0, width |-> 0, height |-> 0]

NoProps == [shader_sources |-> <<>>, output_names |-> <<>>,
            texture_inputs |-> <<>>, video_decode_cfg |-> <<>>]

NoFrame == [width |-> 0, height |-> 0, time |-> 0]

NoExec == [op |-> "none", ok |-> TRUE, err |-> "", call |-> 0,
           out |-> NoOutput, named |-> <<>>, draws |-> <<>>, binds |-> <<>>,
           props |-> NoProps, frame |-> NoFrame, plan |-> <<>>,
           out_node |-> -1, polls |-> <<>>]

\* No HistoryTapSink and no ReadbackSink has been created yet.
NoTap == [made |-> FALSE, frames |-> <<>>, write_idx |-> 0, capacity |-> 0]

NoReadback == [made |-> FALSE, enabled |-> FALSE, stride |-> 0,
               frame_counter |-> 0, last_w |-> 0, last_h |-> 0]

\* lastSink: the call, its outcome, its arguments, the number of consume
\* calls made so far, whether this call read pixels back, and the sizes of
\* the outputs handed to the HistoryTapSink so far.
NoSinkOp == [op |-> "none", ok |-> TRUE, err |-> "", args |-> <<>>,
             count |-> 0, read |-> FALSE, log |-> <<>>]

NoDoc == [banks |-> <<>>]

NoBankSet == [done |-> FALSE]

\* No VideoDecoder has been made.  Of a decoder: its configuration, the
\* frame behind the mutex `latest` (<<>> for None), the stop flag, where the
\* worker thread stands, the state of the ffmpeg child it holds, and
\* whether drop has joined the worker.  The other fields record what has
\* happened: the error from_config returned, the children spawned and
\* reaped, the frames published, why the worker returned, the polls made
\* and what the last one returned.
NoDecoder ==
    [made |-> FALSE, err |-> "", cfg |-> <<>>, latest |-> <<>>,
     stop |-> FALSE, worker |-> "none", logged_spawn_error |-> FALSE,
     child |-> "none", joined |-> FALSE,
     spawned |-> 0, reaped |-> 0, published |-> <<>>, exit |-> "",
     polls |-> 0, ret |-> <<>>]

\* An f32 that holds a whole number, the NaN, and the infinity of a sign.
Fin(x) == [k |-> "fin", v |-> x]

NaN == [k |-> "nan", v |-> 0]

Inf(sign) == [k |-> "inf", v |-> sign]

\* TransportState::default and ColorState::default.
DefaultTransport ==
    [speed |-> Fin(1), paused |-> FALSE, norm_pos |-> Fin(0),
     scrub_delta |-> Fin(0)]

DefaultColor ==
    [brightness |-> Fin(0), contrast |-> Fin(1), saturation |-> Fin(1)]

\* No ControlLayer has been made; `calls` counts the on_key and on_osc
\* calls made on the layer.
NoLayer == [made |-> FALSE, transport |-> DefaultTransport,
            color |-> DefaultColor, keymap |-> <<>>, oscmap |-> <<>>,
            calls |-> 0]

Init ==
    /\ next_node = 0
    /\ next_port = 0
    /\ nodes = <<>>
    /\ edges = <<>>
    /\ lastOp = NoOp
    /\ pixels_out = <<>>
    /\ name_plan = NoNamePlan
    /\ state = NewRuntimeState
    /\ gl = NewContext
    /\ lastExec = NoExec
    /\ routes = <<>>
    /\ sink_calls = <<>>
    /\ tap = NoTap
    /\ readback = NoReadback
    /\ lastSink = NoSinkOp
    /\ bank_doc = NoDoc
    /\ bank_set = NoBankSet
    /\ layer = NoLayer
    /\ decoder = NoDecoder

Next ==
    \/ \E kind \in CoreKinds : WithinPorts(kind) /\ AddNode(kind)
    \/ \E from \in FromArgs, to \in ToArgs : Connect(from, to)
    \/ \E a \in NodeArgs, b \in NodeArgs :
          \E pa \in NameArgs(a), pb \in NameArgs(b) : ConnectNamed(a, pa, b, pb)
    \/ Compile

Spec == Init /\ [][Next]_vars

----------------------------------------------------------------------------
(* SpecKinds: graphs over every NodeKind, wired by name and compiled.  The *)
(* first node is of any kind, the later ones of the core kinds within the  *)
(* port bound.                                                             *)

NextKinds ==
    \/ \E kind \in NodeKind :
          /\ DOMAIN nodes = {} \/ (kind \in CoreKinds /\ WithinPorts(kind))
          /\ AddNode(kind)
    \/ \E a \in NodeArgs, b \in NodeArgs :
          \E pa \in NameArgs(a), pb \in NameArgs(b) : ConnectNamed(a, pa, b, pb)
    \/ Compile

SpecKinds == Init /\ [][NextKinds]_vars

----------------------------------------------------------------------------
(* SpecNamed: add_node and connect_named, the arguments of connect_named   *)
(* recorded.                                                               *)

NextNamed ==
    \/ \E kind \in CoreKinds : WithinPorts(kind) /\ AddNode(kind)
    \/ \E a \in NodeArgs, b \in NodeArgs :
          \E pa \in NameArgs(a), pb \in NameArgs(b) :
             ConnectNamedObserved(a, pa, b, pb)

SpecNamed == Init /\ [][NextNamed]_vars

----------------------------------------------------------------------------
(* runtime_contract::plan_output_names.                                    *)

\* Option<&str>: None is <<>>, Some(n) is <<n>>.
None == <<>>

Some(n) == <<n>>

\* HashMap::insert
MapInsert(m, k, v) == [x \in DOMAIN m \cup {k} |-> IF x = k THEN v ELSE m[x]]

\* The for loop over the slice from entry i on; acc holds `unnamed`, `named`,
\* `seen`, and in `err` the message of an early return ("" for none).
RECURSIVE NamesLoop(_, _, _)
NamesLoop(list, i, acc) ==
    IF i > Len(list) THEN acc
    ELSE LET id   == list[i][1]
             name == list[i][2]
         IN  IF name = None
             THEN NamesLoop(list, i + 1, [acc EXCEPT !.unnamed = Append(@, id)])
             ELSE IF name[1] = "main"
                  THEN [acc EXCEPT !.err = "output name 'main' is reserved"]
             ELSE IF name[1] \in acc.seen
                  THEN [acc EXCEPT !.err = "duplicate output name"]
             ELSE NamesLoop(list, i + 1,
                            [acc EXCEPT !.seen = @ \cup {name[1]},
                                        !.named = MapInsert(@, name[1], id)])

NamesErr(msg) ==
    [done |-> TRUE, ok |-> FALSE, err |-> msg, primary |-> -1, named |-> <<>>]

\* Mutant of plan_output_names: any number of unnamed entries but zero is
\* accepted.
plan_output_names_some_unnamed(list) ==
    IF list = <<>> THEN NamesErr("no PixelsOut nodes in graph")
    ELSE LET r == NamesLoop(list, 1,
                            [unnamed |-> <<>>, named |-> <<>>, seen |-> {},
                             err |-> ""])
         IN  IF r.err # "" THEN NamesErr(r.err)
             ELSE IF Len(r.unnamed) = 0
                  THEN NamesErr("expected exactly 1 unnamed PixelsOut (primary)")
             ELSE [done |-> TRUE, ok |-> TRUE, err |-> "",
                   primary |-> r.unnamed[1], named |-> r.named]

plan_output_names(list) ==
    IF list = <<>> THEN NamesErr("no PixelsOut nodes in graph")
    ELSE LET r == NamesLoop(list, 1,
                            [unnamed |-> <<>>, named |-> <<>>, seen |-> {},
                             err |-> ""])
         IN  IF r.err # "" THEN NamesErr(r.err)
             ELSE IF Len(r.unnamed) # 1
                  THEN NamesErr("expected exactly 1 unnamed PixelsOut (primary)")
             ELSE [done |-> TRUE, ok |-> TRUE, err |-> "",
                   primary |-> r.unnamed[1], named |-> r.named]

PlanOutputNames ==
    /\ name_plan = NoNamePlan
    /\ name_plan' = plan_output_names(pixels_out)
    /\ UNCHANGED <<graphVars, pixels_out, execVars, sinkVars,
                   bankVars, layer, decoder>>

----------------------------------------------------------------------------
(* SpecNames: plan_output_names on every slice of at most MaxOuts entries  *)
(* over these node ids and names.                                          *)

OutIds == 1..MaxOuts

OutNames == {None, Some("main"), Some("program"), Some("preview")}

OutLists == UNION {[1..n -> OutIds \X OutNames] : n \in 0..MaxOuts}

InitNames ==
    /\ next_node = 0
    /\ next_port = 0
    /\ nodes = <<>>
    /\ edges = <<>>
    /\ lastOp = NoOp
    /\ pixels_out \in OutLists
    /\ name_plan = NoNamePlan
    /\ state = NewRuntimeState
    /\ gl = NewContext
    /\ lastExec = NoExec
    /\ routes = <<>>
    /\ sink_calls = <<>>
    /\ tap = NoTap
    /\ readback = NoReadback
    /\ lastSink = NoSinkOp
    /\ bank_doc = NoDoc
    /\ bank_set = NoBankSet
    /\ layer = NoLayer
    /\ decoder = NoDecoder

NextNames == PlanOutputNames

SpecNames == InitNames /\ [][NextNames]_vars

----------------------------------------------------------------------------
(* scheng-runtime-glow: render targets, the ping-pong pair, the channel of *)
(* an input port, shader resolution and the program cache.                 *)

\* What a texture holds: the draw that last wrote it, [by |-> node id,
\* call |-> number of the execute_plan call].  Storage allocated by
\* tex_image_2d with no data holds nothing that was drawn.
Undefined == [by |-> -1, call |-> 0]

\* A texture the host supplies (NodeProps.texture_inputs).
HostImage == [by |-> -2, call |-> 0]

Drawn(n, call) == [by |-> n, call |-> call]

ImgOf(g, tex) == IF tex \in DOMAIN g.img THEN g.img[tex] ELSE HostImage

\* w.max(1)
AtLeastOne(x) == IF x < 1 THEN 1 ELSE x

\* create_render_target on context g: the context afterwards and the target.
create_render_target(g, w, h) ==
    [gl |-> [g EXCEPT !.next = @ + 2,
                      !.img = MapInsert(@, g.next + 1, Undefined)],
     rt |-> [fbo |-> g.next, tex |-> g.next + 1,
             w |-> AtLeastOne(w), h |-> AtLeastOne(h)]]

\* RenderTarget::resize: same names, new storage.
resize(g, rt, w, h) ==
    [gl |-> [g EXCEPT !.img = MapInsert(@, rt.tex, Undefined)],
     rt |-> [rt EXCEPT !.w = AtLeastOne(w), !.h = AtLeastOne(h)]]

\* Mutant of ensure_size: only the current target is brought to size.
ensure_size_curr_only(g, pp, w, h) ==
    LET c == IF pp.curr.w # w \/ pp.curr.h # h
             THEN resize(g, pp.curr, w, h)
             ELSE [gl |-> g, rt |-> pp.curr]
    IN  [gl |-> c.gl, pp |-> [curr |-> c.rt, prev |-> pp.prev]]

\* PingPong::ensure_size
ensure_size(g, pp, w, h) ==
    LET c == IF pp.curr.w # w \/ pp.curr.h # h
             THEN resize(g, pp.curr, w, h)
             ELSE [gl |-> g, rt |-> pp.curr]
        p == IF pp.prev.w # w \/ pp.prev.h # h
             THEN resize(c.gl, pp.prev, w, h)
             ELSE [gl |-> c.gl, rt |-> pp.prev]
    IN  [gl |-> p.gl, pp |-> [curr |-> c.rt, prev |-> p.rt]]

\* PingPong::swap
swap(pp) == [curr |-> pp.prev, prev |-> pp.curr]

\* No channel: input_channel_for returned None.
NoChannel == -1

\* runtime_contract::input_channel_for; the kind is not looked at.
input_channel_for(kind, port_name) ==
    CASE port_name \in {"in", "in0", "a", "src"} -> 0
      [] port_name \in {"in1", "b", "src1"}      -> 1
      [] port_name \in {"in2", "c", "src2"}      -> 2
      [] port_name \in {"in3", "d", "src3"}      -> 3
      [] OTHER                                   -> NoChannel

\* graph.edges().iter().filter(|e| e.to.node == nid && e.to.dir == In)
incoming_edges(nid) ==
    SelectSeq(edges, LAMBDA e : e.to.node = nid /\ e.to.dir = "In")

\* The In port of node_id with this id, as n.ports.iter().find gives it:
\* its index in the port list, 0 for none.
InPortIndex(node_id, port) ==
    IF node_id \notin DOMAIN nodes THEN 0
    ELSE LET ps == nodes[node_id].ports
         IN  FirstIndex({k \in DOMAIN ps : ps[k].id = port /\ ps[k].dir = "In"})

\* port_channel_index
port_channel_index(node_id, port) ==
    IF InPortIndex(node_id, port) = 0 THEN NoChannel
    ELSE input_channel_for(nodes[node_id].kind,
                           nodes[node_id].ports[InPortIndex(node_id, port)].name)

\* scheng_runtime::standard_op_for: the MixerOp of a kind, "" for None.
standard_op_for(kind) ==
    IF kind \in {"Crossfade", "Add", "Multiply", "MatrixMix4"} THEN kind ELSE ""

\* builtin_mixer_frag
builtin_mixer_frag(op) ==
    IF op = "MatrixMix4" THEN "MATRIXMIX4_FRAG" ELSE "CROSSFADE_FRAG"

ShaderSource(vert, frag) == [vert |-> vert, frag |-> frag]

NoShader == ShaderSource("", "")

\* resolve_shader: the override of the pass node, else the built-in mixer
\* shader, else the ShaderSource node behind the first incoming edge.
resolve_shader(pass_node, props) ==
    IF pass_node \in DOMAIN props.shader_sources
    THEN [err |-> "", shader |-> props.shader_sources[pass_node]]
    ELSE IF pass_node \notin DOMAIN nodes
    THEN [err |-> "execute_plan: resolve_shader missing node", shader |-> NoShader]
    ELSE IF standard_op_for(nodes[pass_node].kind) # ""
    THEN [err |-> "",
          shader |-> ShaderSource("FULLSCREEN_VERT",
                        builtin_mixer_frag(standard_op_for(nodes[pass_node].kind)))]
    ELSE LET inc == incoming_edges(pass_node)
         IN  IF inc # <<>> /\ inc[1].from.node \notin DOMAIN nodes
             THEN [err |-> "execute_plan: edge references missing node",
                   shader |-> NoShader]
             ELSE IF inc # <<>> /\ nodes[inc[1].from.node].kind = "ShaderSource"
             THEN IF inc[1].from.node \in DOMAIN props.shader_sources
                  THEN [err |-> "",
                        shader |-> props.shader_sources[inc[1].from.node]]
                  ELSE [err |-> "execute_plan: missing ShaderSource in NodeProps",
                        shader |-> NoShader]
             ELSE [err |-> "execute_plan: missing shader source",
                   shader |-> NoShader]

\* hash_str on the texts of the model: DefaultHasher gives equal texts equal
\* hashes; the texts of the model are given distinct ones.
hash_str(s) ==
    CASE s = "FULLSCREEN_VERT" -> 11
      [] s = "CROSSFADE_FRAG"  -> 23
      [] s = "MATRIXMIX4_FRAG" -> 37
      [] s = "vertB"           -> 41
      [] s = "fragA"           -> 53
      [] s = "fragB"           -> 67
      [] s = "fragBad"         -> 79
      [] OTHER                 -> 97

ProgramKey(shader) ==
    [vert_hash |-> hash_str(shader.vert), frag_hash |-> hash_str(shader.frag)]

\* The driver accepts every text of the model but the fragment text
\* "fragBad".
Compiles(shader) == shader.frag # "fragBad"

\* compile_program: on success a new program name and the text recorded as
\* compiled.
compile_program(g, shader) ==
    IF Compiles(shader)
    THEN [err |-> "", program |-> g.next,
          gl |-> [g EXCEPT !.next = @ + 1,
                           !.compiled = Append(@, shader)]]
    ELSE [err |-> "FragmentCompile", program |-> 0, gl |-> g]

----------------------------------------------------------------------------
(* execute_plan: the loop over the plan's nodes.                           *)

\* Mutant of node_is_render_pass: every Processor kind is a render pass.
node_is_processor_or_mixer(kind) == class(kind) \in {"Processor", "Mixer"}

\* The test made on a plan node and on the node behind an edge:
\* kind == ShaderPass || kind.class() == Mixer.
node_is_render_pass(kind) == kind = "ShaderPass" \/ class(kind) = "Mixer"

Skip == [err |-> "", push |-> FALSE, ch |-> 0, tex |-> 0]

Push(ch, tex) == [err |-> "", push |-> TRUE, ch |-> ch, tex |-> tex]

Fail(msg) == [err |-> msg, push |-> FALSE, ch |-> 0, tex |-> 0]

\* Mutant of PassTexture: an upstream pass not drawn yet in this call is
\* sampled from the target it will draw into next.
PassTexturePrev(from_id, targets, outputs) ==
    IF from_id \in DOMAIN outputs THEN outputs[from_id].tex
    ELSE targets[from_id].prev.tex

\* The texture sampled from an upstream render pass that has one: the
\* target it drew into in this call, else `curr` of its cached pair.
PassTexture(from_id, targets, outputs) ==
    IF from_id \in DOMAIN outputs THEN outputs[from_id].tex
    ELSE targets[from_id].curr.tex

\* The body of `for e in incoming_edges(node.id)`: what edge e adds to
\* `inputs` for node nid, given the targets, the outputs recorded so far in
\* this call and the source textures.
EdgeInput(e, nid, history_tex, targets, outputs, source_outputs, props) ==
    LET ch == port_channel_index(nid, e.to.port)
        pi == InPortIndex(nid, e.to.port)
        from_id == e.from.node
    IN  IF ch = NoChannel THEN Skip
        ELSE IF pi # 0 /\ nodes[nid].ports[pi].name = "history"
             THEN Push(ch, history_tex)
        ELSE IF from_id \notin DOMAIN nodes
             THEN Fail("execute_plan: edge references missing node")
        ELSE IF node_is_render_pass(nodes[from_id].kind)
             THEN IF from_id \in DOMAIN outputs \/ from_id \in DOMAIN targets
                  THEN Push(ch, PassTexture(from_id, targets, outputs))
                  ELSE Skip
        ELSE IF nodes[from_id].kind = "TextureInputPass"
             THEN IF from_id \in DOMAIN source_outputs
                  THEN Push(ch, source_outputs[from_id].tex)
                  ELSE IF from_id \in DOMAIN props.texture_inputs
                       THEN Push(ch, props.texture_inputs[from_id])
                       ELSE Fail("TextureInputPass missing source texture")
        ELSE IF nodes[from_id].kind = "VideoDecodeSource"
             THEN IF from_id \in DOMAIN source_outputs
                  THEN Push(ch, source_outputs[from_id].tex)
                  ELSE Fail("VideoDecodeSource missing decoded texture")
        ELSE Skip

\* The loop over the incoming edges from the j-th on; `inputs` is the Vec of
\* (channel, texture) pushed so far.
RECURSIVE InputsLoop(_, _, _, _, _, _, _, _, _)
InputsLoop(inc, j, inputs, nid, history_tex, targets, outputs, source_outputs, props) ==
    IF j > Len(inc) THEN [err |-> "", inputs |-> inputs]
    ELSE LET r == EdgeInput(inc[j], nid, history_tex, targets, outputs,
                            source_outputs, props)
         IN  IF r.err # "" THEN [err |-> r.err, inputs |-> inputs]
             ELSE InputsLoop(inc, j + 1,
                             IF r.push THEN Append(inputs, <<r.ch, r.tex>>)
                                       ELSE inputs,
                             nid, history_tex, targets, outputs,
                             source_outputs, props)

\* Stable insertion of x into s, which is sorted by channel.
RECURSIVE InsertByChannel(_, _)
InsertByChannel(x, s) ==
    IF s = <<>> THEN <<x>>
    ELSE IF s[Len(s)][1] <= x[1] THEN Append(s, x)
    ELSE Append(InsertByChannel(x, SubSeq(s, 1, Len(s) - 1)), s[Len(s)])

RECURSIVE SortByChannel(_)
SortByChannel(s) ==
    IF s = <<>> THEN <<>>
    ELSE InsertByChannel(s[Len(s)], SortByChannel(SubSeq(s, 1, Len(s) - 1)))

\* Mutant of SortInputs: the inputs stay in the order of the edge list.
KeepEdgeOrder(inputs) == inputs

\* inputs.sort_by_key(|(ch, _)| *ch)
SortInputs(inputs) == SortByChannel(inputs)

\* The ping-pong pair of node nid at frame size w x h: created when the node
\* has none, then brought to size.
EnsureTargets(g, targets, nid, w, h) ==
    IF nid \in DOMAIN targets
    THEN ensure_size(g, targets[nid], w, h)
    ELSE LET c == create_render_target(g, w, h)
             p == create_render_target(c.gl, w, h)
         IN  ensure_size(p.gl, [curr |-> c.rt, prev |-> p.rt], w, h)

\* Mutant of CachedProgram: the cache is not consulted.
AlwaysCompile(g, cache, shader) == compile_program(g, shader)

\* The program for a resolved text: the cached one, else a newly compiled.
CachedProgram(g, cache, shader) ==
    IF ProgramKey(shader) \in DOMAIN cache
    THEN [err |-> "", program |-> cache[ProgramKey(shader)], gl |-> g]
    ELSE compile_program(g, shader)

\* Mutant of BindProgram: a node that has a binding keeps it.
BindProgramOnce(programs, nid, key, prog) ==
    IF nid \notin DOMAIN programs
    THEN MapInsert(programs, nid, [program |-> prog, key |-> key])
    ELSE programs

\* state.programs after the needs_rebind test.
BindProgram(programs, nid, key, prog) ==
    IF nid \notin DOMAIN programs \/ programs[nid].key # key
    THEN MapInsert(programs, nid, [program |-> prog, key |-> key])
    ELSE programs

\* The inputs of node nid in the order they are bound: the incoming edges
\* walked, then sorted by channel.
BoundInputs(nid, history_tex, targets, outputs, source_outputs, props) ==
    LET ins == InputsLoop(incoming_edges(nid), 1, <<>>, nid, history_tex,
                          targets, outputs, source_outputs, props)
    IN  [err |-> ins.err, inputs |-> SortInputs(ins.inputs)]

\* The end of the body for a render-pass node, the pair t, the inputs ins
\* and the program cp being known: rebind, swap, draw, record.
DrawPass(acc, nid, props, call, t, ins, cp) ==
    LET sh  == resolve_shader(nid, props)
        key == ProgramKey(sh.shader)
        programs1 == BindProgram(acc.state.programs, nid, key, cp.program)
        pp  == swap(t.pp)
        tgt == pp.curr
        stopped == [acc EXCEPT
                       !.state.targets = MapInsert(@, nid, t.pp), !.gl = t.gl]
    IN  IF ins.err # "" THEN [stopped EXCEPT !.err = ins.err]
        ELSE IF sh.err # "" THEN [stopped EXCEPT !.err = sh.err]
        ELSE IF cp.err # "" THEN [stopped EXCEPT !.err = cp.err]
        ELSE [acc EXCEPT
                !.state = [acc.state EXCEPT
                              !.programs = programs1,
                              !.program_cache = MapInsert(@, key, cp.program),
                              !.targets = MapInsert(@, nid, pp)],
                !.gl = [cp.gl EXCEPT !.img = MapInsert(@, tgt.tex, Drawn(nid, call))],
                !.outputs = MapInsert(@, nid, tgt),
                !.draws = Append(@, [node |-> nid, target |-> tgt.tex,
                                     program |-> programs1[nid].program]),
                !.binds = MapInsert(@, nid,
                              [k \in DOMAIN ins.inputs |->
                                  [ch |-> ins.inputs[k][1],
                                   tex |-> ins.inputs[k][2],
                                   img |-> ImgOf(cp.gl, ins.inputs[k][2])]])]

\* The body for a render-pass node once its pair t is ensured: inputs and
\* program.  pp.curr before the swap is what a "history" port is given.
PassWithTargets(acc, nid, props, call, t) ==
    CHOOSE r \in
        {DrawPass(acc, nid, props, call, t, ins, cp) :
            ins \in {BoundInputs(nid, t.pp.curr.tex,
                                 MapInsert(acc.state.targets, nid, t.pp),
                                 acc.outputs, acc.source_outputs, props)},
            cp \in {CachedProgram(t.gl, acc.state.program_cache,
                                  resolve_shader(nid, props).shader)}} : TRUE

\* The body of the plan loop for a render-pass node: targets, inputs,
\* program, swap, draw, record.  acc carries the RuntimeState, the context,
\* `outputs`, `source_outputs`, the draws issued and the textures bound for
\* each, and the error of an early return.
RenderPass(acc, nid, props, frame, call) ==
    CHOOSE r \in
        {PassWithTargets(acc, nid, props, call, t) :
            t \in {EnsureTargets(acc.gl, acc.state.targets, nid,
                                 frame.width, frame.height)}} : TRUE

\* create_host_texture: a new texture name with storage that holds nothing.
create_host_texture(g, w, h) ==
    [gl |-> [g EXCEPT !.next = @ + 1, !.img = MapInsert(@, g.next, Undefined)],
     tex |-> g.next]

\* VideoDecoder::from_config on a configuration that names a file: the
\* message of the error, "" for none.
from_config(cfg) ==
    IF cfg.width = 0 \/ cfg.height = 0 THEN "width/height must be > 0"
    ELSE IF cfg.fps = 0 THEN "fps must be > 0"
    ELSE ""

\* Mutant of poll_rgba: the frames come one pixel wider than configured.
poll_rgba_wider(vn) ==
    IF vn.latest
    THEN Some([width |-> vn.cfg.width + 1, height |-> vn.cfg.height])
    ELSE None

\* poll_rgba: the frame the decode loop published last, None before the
\* first.  The decode loop makes every frame of the size of its
\* configuration.
poll_rgba(vn) ==
    IF vn.latest
    THEN Some([width |-> vn.cfg.width, height |-> vn.cfg.height])
    ELSE None

\* The first part of the body for a VideoDecodeSource node: its session is
\* looked up in state.video_nodes, and opened from the configuration in the
\* NodeProps when there is none.
OpenVideoNode(acc, nid, props) ==
    LET cfg == props.video_decode_cfg[nid]
        t   == create_host_texture(acc.gl, cfg.width, cfg.height)
    IN  IF nid \in DOMAIN acc.state.video_nodes THEN acc
        ELSE IF nid \notin DOMAIN props.video_decode_cfg
        THEN [acc EXCEPT !.err = "VideoDecodeSource node requires video_decode entry"]
        ELSE IF from_config(cfg) # ""
        THEN [acc EXCEPT !.err = "video decode (cfg): " \o from_config(cfg)]
        ELSE [acc EXCEPT
                !.gl = t.gl,
                !.state.video_nodes =
                    MapInsert(@, nid,
                              [cfg |-> cfg, latest |-> FALSE, tex |-> t.tex,
                               w |-> cfg.width, h |-> cfg.height,
                               fps |-> AtLeastOne(cfg.fps),
                               last_frame_index |-> -1])]

\* The frame index of the timeline: floor(max(time, 0) * fps), the time
\* being a whole number of seconds in the model.
timeline_index(vn, frame) ==
    IF vn.fps > 0
    THEN (IF frame.time < 0 THEN 0 ELSE frame.time) * vn.fps
    ELSE -1

\* Mutant of timeline_advanced: the index of the frame uploaded last counts
\* as new.
timeline_not_behind(index, last_frame_index) ==
    index < 0 \/ index >= last_frame_index

\* timeline_index < 0 || timeline_index > vn.last_frame_index
timeline_advanced(index, last_frame_index) ==
    index < 0 \/ index > last_frame_index

\* Mutant of UploadFrame: the index is stored although no frame came.
UploadFrameMarksIndex(acc, nid, vf, index, call) ==
    LET vn == acc.state.video_nodes[nid]
    IN  [acc EXCEPT !.state.video_nodes[nid].last_frame_index =
                        IF index < 0 THEN 0 ELSE index,
                    !.gl.img = IF vf = None THEN @
                               ELSE MapInsert(@, vn.tex, Drawn(nid, call))]

\* `if let Ok(vf) = vn.dec.poll_rgba()`: nothing for no frame; else the
\* frame is uploaded into the node's texture, which is deleted and made
\* anew if the frame has another size, and the index is stored.
UploadFrame(acc, nid, vf, index, call) ==
    LET vn    == acc.state.video_nodes[nid]
        other == vf[1].width # vn.w \/ vf[1].height # vn.h
        t     == IF other
                 THEN create_host_texture(
                          [acc.gl EXCEPT !.deleted = Append(@, vn.tex)],
                          vf[1].width, vf[1].height)
                 ELSE [gl |-> acc.gl, tex |-> vn.tex]
        last  == IF index < 0 THEN 0 ELSE index
        vn2   == IF other
                 THEN [vn EXCEPT !.w = vf[1].width, !.h = vf[1].height,
                                 !.tex = t.tex, !.last_frame_index = last]
                 ELSE [vn EXCEPT !.last_frame_index = last]
    IN  IF vf = None THEN acc
        ELSE [acc EXCEPT
                !.gl = [t.gl EXCEPT !.img = MapInsert(@, vn2.tex, Drawn(nid, call))],
                !.state.video_nodes = MapInsert(@, nid, vn2)]

\* The second part: when the timeline has passed the frame uploaded last,
\* the decoder is polled and its frame uploaded; the node's texture is
\* recorded in source_outputs.  acc.polls lists the nodes whose decoder was
\* polled.
UploadVideo(acc, nid, frame, call) ==
    CHOOSE r \in
        {[u EXCEPT !.source_outputs =
             MapInsert(@, nid, [tex |-> u.state.video_nodes[nid].tex,
                                w |-> u.state.video_nodes[nid].w,
                                h |-> u.state.video_nodes[nid].h])] :
            u \in {IF timeline_advanced(
                          timeline_index(acc.state.video_nodes[nid], frame),
                          acc.state.video_nodes[nid].last_frame_index)
                   THEN UploadFrame([acc EXCEPT !.polls = Append(@, nid)], nid,
                                    poll_rgba(acc.state.video_nodes[nid]),
                                    timeline_index(acc.state.video_nodes[nid], frame),
                                    call)
                   ELSE acc}} : TRUE

\* The body for a VideoDecodeSource node.
VideoNode(acc, nid, props, frame, call) ==
    CHOOSE r \in
        {IF opened.err # "" THEN opened
         ELSE UploadVideo(opened, nid, frame, call) :
            opened \in {OpenVideoNode(acc, nid, props)}} : TRUE

\* The body of `for nid in &plan.nodes`.
RunNode(acc, nid, props, frame, call) ==
    IF nid \notin DOMAIN nodes
    THEN [acc EXCEPT !.err = "execute_plan: plan references missing node"]
    ELSE IF nodes[nid].kind = "TextureInputPass"
    THEN IF nid \in DOMAIN props.texture_inputs
         THEN [acc EXCEPT !.source_outputs =
                  MapInsert(@, nid, [tex |-> props.texture_inputs[nid],
                                     w |-> frame.width, h |-> frame.height])]
         ELSE [acc EXCEPT !.err = "TextureInputPass missing host texture"]
    ELSE IF nodes[nid].kind = "VideoDecodeSource"
    THEN VideoNode(acc, nid, props, frame, call)
    ELSE IF ~node_is_render_pass(nodes[nid].kind) THEN acc
    ELSE RenderPass(acc, nid, props, frame, call)

\* Mutant of PlanLoop: the plan's nodes are run from the last to the first.
RECURSIVE PlanLoopBackwards(_, _, _, _, _, _)
PlanLoopBackwards(plan_nodes, i, acc, props, frame, call) ==
    IF i > Len(plan_nodes) \/ acc.err # "" THEN acc
    ELSE CHOOSE r \in
            {PlanLoopBackwards(plan_nodes, i + 1, next, props, frame, call) :
                next \in {RunNode(acc, plan_nodes[Len(plan_nodes) + 1 - i],
                                  props, frame, call)}} : TRUE

\* The plan loop from the i-th node on; it stops at the first error.
RECURSIVE PlanLoop(_, _, _, _, _, _)
PlanLoop(plan_nodes, i, acc, props, frame, call) ==
    IF i > Len(plan_nodes) \/ acc.err # "" THEN acc
    ELSE CHOOSE r \in
            {PlanLoop(plan_nodes, i + 1, next, props, frame, call) :
                next \in {RunNode(acc, plan_nodes[i], props, frame, call)}} : TRUE

----------------------------------------------------------------------------
(* execute_plan and execute_plan_outputs.                                  *)

NoNode == -1

\* Mutant of out_node: the first node of the Output class is taken.
out_node_of_output_class(plan) ==
    LET i == FirstIndex({k \in DOMAIN plan.nodes :
                            /\ plan.nodes[k] \in DOMAIN nodes
                            /\ class(nodes[plan.nodes[k]].kind) = "Output"})
    IN  IF i = 0 THEN -1 ELSE plan.nodes[i]

\* out_node: the first node of the plan that the graph holds as a PixelsOut.
out_node(plan) ==
    LET i == FirstIndex({k \in DOMAIN plan.nodes :
                            /\ plan.nodes[k] \in DOMAIN nodes
                            /\ nodes[plan.nodes[k]].kind = "PixelsOut"})
    IN  IF i = 0 THEN NoNode ELSE plan.nodes[i]

\* graph.edges().iter().find(|e| e.to.node == n && e.to.dir == In): the
\* index of the edge, 0 for none.
FirstEdgeInto(n) ==
    FirstIndex({k \in DOMAIN edges :
                   edges[k].to.node = n /\ edges[k].to.dir = "In"})

ExecOutput(rt) == [tex |-> rt.tex, fbo |-> rt.fbo, width |-> rt.w, height |-> rt.h]

\* What execute_plan leaves and returns.
ExecResult(err, out, acc, on) ==
    [ok |-> err = "", err |-> err, out |-> out, state |-> acc.state,
     gl |-> acc.gl, draws |-> acc.draws, binds |-> acc.binds,
     out_node |-> on, named |-> <<>>, polls |-> acc.polls]

\* Mutant of FinalOutput: the target the driving pass drew into the frame
\* before is returned.
FinalOutputPrevious(acc, from_id) ==
    IF from_id \in DOMAIN acc.state.targets
    THEN [err |-> "", out |-> ExecOutput(acc.state.targets[from_id].prev)]
    ELSE [err |-> "execute_plan: missing output texture for final pass",
          out |-> NoOutput]

\* outputs.get(&from_node.id).or_else(|| state.targets.get(..).curr)
FinalOutput(acc, from_id) ==
    IF from_id \in DOMAIN acc.outputs
    THEN [err |-> "", out |-> ExecOutput(acc.outputs[from_id])]
    ELSE IF from_id \in DOMAIN acc.state.targets
    THEN [err |-> "", out |-> ExecOutput(acc.state.targets[from_id].curr)]
    ELSE [err |-> "execute_plan: missing output texture for final pass",
          out |-> NoOutput]

\* The end of execute_plan, acc being what the plan loop left: the output
\* is resolved from the first edge into PixelsOut node `on`.
ResolveOutput(acc, on) ==
    LET ei    == FirstEdgeInto(on)
        from_id == edges[ei].from.node
    IN  IF acc.err # "" THEN ExecResult(acc.err, NoOutput, acc, on)
        ELSE IF ei = 0
        THEN ExecResult("execute_plan: PixelsOut has no input edge",
                        NoOutput, acc, on)
        ELSE IF from_id \notin DOMAIN nodes
        THEN ExecResult("execute_plan: output edge references missing node",
                        NoOutput, acc, on)
        ELSE IF ~node_is_render_pass(nodes[from_id].kind)
        THEN ExecResult("execute_plan: PixelsOut input must come from a render pass",
                        NoOutput, acc, on)
        ELSE ExecResult(FinalOutput(acc, from_id).err,
                        FinalOutput(acc, from_id).out, acc, on)

\* execute_plan on RuntimeState st and context g; `call` numbers the call.
execute_plan(st, g, plan, props, frame, call) ==
    LET start == [state |-> st, gl |-> g, outputs |-> <<>>,
                  source_outputs |-> <<>>, draws |-> <<>>, binds |-> <<>>,
                  polls |-> <<>>, err |-> ""]
    IN  IF out_node(plan) = NoNode
        THEN ExecResult("execute_plan: missing PixelsOut node in plan",
                        NoOutput, start, out_node(plan))
        ELSE CHOOSE r \in
                {ResolveOutput(acc, on) :
                    acc \in {PlanLoop(plan.nodes, 1, start, props, frame, call)},
                    on \in {out_node(plan)}} : TRUE

\* resolve_pixels_out: the current target of the render pass behind the
\* first edge into a PixelsOut node.
resolve_pixels_out(pixels_out_node, targets) ==
    LET ei == FirstEdgeInto(pixels_out_node)
        from_id == edges[ei].from.node
    IN  IF ei = 0
        THEN [err |-> "execute_plan_outputs: PixelsOut has no input edge",
              out |-> NoOutput]
        ELSE IF from_id \notin DOMAIN nodes
        THEN [err |-> "execute_plan_outputs: output edge references missing node",
              out |-> NoOutput]
        ELSE IF ~node_is_render_pass(nodes[from_id].kind)
        THEN [err |-> "execute_plan_outputs: PixelsOut input must come from a render pass",
              out |-> NoOutput]
        ELSE IF from_id \notin DOMAIN targets
        THEN [err |-> "execute_plan_outputs: missing render target for output pass",
              out |-> NoOutput]
        ELSE [err |-> "", out |-> ExecOutput(targets[from_id].curr)]

\* Mutant of NamedLoop: a name that is already in the mapping is inserted
\* again.
RECURSIVE NamedLoopOverwrites(_, _, _, _, _)
NamedLoopOverwrites(plan_nodes, i, named, targets, props) ==
    IF i > Len(plan_nodes) THEN [err |-> "", named |-> named]
    ELSE LET nid == plan_nodes[i]
         IN  IF nid \notin DOMAIN nodes \/ nodes[nid].kind # "PixelsOut"
                \/ nid \notin DOMAIN props.output_names
             THEN NamedLoopOverwrites(plan_nodes, i + 1, named, targets, props)
             ELSE IF props.output_names[nid] = "main"
             THEN [err |-> "execute_plan_outputs: output name 'main' is reserved",
                   named |-> named]
             ELSE IF resolve_pixels_out(nid, targets).err # ""
             THEN [err |-> resolve_pixels_out(nid, targets).err, named |-> named]
             ELSE NamedLoopOverwrites(plan_nodes, i + 1,
                            MapInsert(named, props.output_names[nid],
                                      resolve_pixels_out(nid, targets).out),
                            targets, props)

\* The loop of execute_plan_outputs over the plan's nodes from the i-th on:
\* every PixelsOut node with an entry in output_names adds its name.
RECURSIVE NamedLoop(_, _, _, _, _)
NamedLoop(plan_nodes, i, named, targets, props) ==
    IF i > Len(plan_nodes) THEN [err |-> "", named |-> named]
    ELSE LET nid == plan_nodes[i]
         IN  IF nid \notin DOMAIN nodes \/ nodes[nid].kind # "PixelsOut"
                \/ nid \notin DOMAIN props.output_names
             THEN NamedLoop(plan_nodes, i + 1, named, targets, props)
             ELSE IF props.output_names[nid] = "main"
             THEN [err |-> "execute_plan_outputs: output name 'main' is reserved",
                   named |-> named]
             ELSE IF props.output_names[nid] \in DOMAIN named
             THEN [err |-> "execute_plan_outputs: duplicate output name",
                   named |-> named]
             ELSE IF resolve_pixels_out(nid, targets).err # ""
             THEN [err |-> resolve_pixels_out(nid, targets).err, named |-> named]
             ELSE NamedLoop(plan_nodes, i + 1,
                            MapInsert(named, props.output_names[nid],
                                      resolve_pixels_out(nid, targets).out),
                            targets, props)

\* The end of execute_plan_outputs, r being what execute_plan returned:
\* "main" and the named outputs.
NameOutputs(r, plan, props) ==
    LET nl == NamedLoop(plan.nodes, 1, [n \in {"main"} |-> r.out],
                        r.state.targets, props)
    IN  IF ~r.ok THEN r
        ELSE IF nl.err # "" THEN [r EXCEPT !.ok = FALSE, !.err = nl.err,
                                            !.out = NoOutput]
        ELSE [r EXCEPT !.named = nl.named]

\* execute_plan_outputs: execute_plan, then "main" and the named outputs.
execute_plan_outputs(st, g, plan, props, frame, call) ==
    CHOOSE q \in
        {NameOutputs(r, plan, props) :
            r \in {execute_plan(st, g, plan, props, frame, call)}} : TRUE

\* What lastExec keeps of a call.
Observed(op, r, plan, props, frame, call) ==
    [op |-> op, ok |-> r.ok, err |-> r.err, call |-> call, out |-> r.out,
     named |-> r.named, draws |-> r.draws, binds |-> r.binds,
     props |-> props, frame |-> frame, plan |-> plan, out_node |-> r.out_node,
     polls |-> r.polls]

\* The plan the host holds: the one the last call on the graph, a compile,
\* returned.
HoldsPlan == lastOp.op = "compile" /\ lastOp.ok

\* One frame through execute_plan on a RuntimeState that has not been
\* destroyed.
ExecutePlanCall(props, frame) ==
    /\ HoldsPlan
    /\ lastExec.op # "destroy"
    /\ \E r \in {execute_plan(state, gl, lastOp.ret, props, frame,
                                lastExec.call + 1)} :
           /\ state' = r.state
           /\ gl' = r.gl
           /\ lastExec' = Observed("execute_plan", r, lastOp.ret, props, frame,
                                   lastExec.call + 1)
    /\ UNCHANGED <<graphVars, nameVars, sinkVars, bankVars, layer, decoder>>

\* One of the first MaxFrames frames through execute_plan.
ExecutePlan(props, frame) ==
    lastExec.call < MaxFrames /\ ExecutePlanCall(props, frame)

\* One frame through execute_plan_outputs.
ExecutePlanOutputs(props, frame) ==
    /\ HoldsPlan
    /\ lastExec.call < MaxFrames
    /\ \E r \in {execute_plan_outputs(state, gl, lastOp.ret, props, frame,
                                        lastExec.call + 1)} :
           /\ state' = r.state
           /\ gl' = r.gl
           /\ lastExec' = Observed("execute_plan_outputs", r, lastOp.ret,
                                   props, frame, lastExec.call + 1)
    /\ UNCHANGED <<graphVars, nameVars, sinkVars, bankVars, layer, decoder>>

\* The four names of a ping-pong pair in the order destroy deletes them.
TargetHandles(pp) == <<pp.curr.fbo, pp.curr.tex, pp.prev.fbo, pp.prev.tex>>

\* RuntimeState::destroy, the three maps being drained in the orders po, to
\* and vo of their keys: the state and the context afterwards.
destroy(st, g, po, to, vo) ==
    [state |-> [fs_tri |-> FALSE, programs |-> <<>>, program_cache |-> <<>>,
                targets |-> <<>>, video_nodes |-> <<>>],
     gl |-> [g EXCEPT !.deleted =
                @ \o [i \in 1..Len(po) |-> st.program_cache[po[i]]]
                  \o [k \in 1..(4 * Len(to)) |->
                        TargetHandles(st.targets[to[((k - 1) \div 4) + 1]])
                            [((k - 1) % 4) + 1]]
                  \o [i \in 1..Len(vo) |-> st.video_nodes[vo[i]].tex]]]

\* The host tears the RuntimeState down after its frames, once.
Destroy ==
    /\ lastExec.call > 0
    /\ lastExec.op # "destroy"
    /\ \E po \in IterOrders(DOMAIN state.program_cache),
          to \in IterOrders(DOMAIN state.targets),
          vo \in IterOrders(DOMAIN state.video_nodes) :
          \E r \in {destroy(state, gl, po, to, vo)} :
             /\ state' = r.state
             /\ gl' = r.gl
    /\ lastExec' = [lastExec EXCEPT !.op = "destroy"]
    /\ UNCHANGED <<graphVars, nameVars, sinkVars, bankVars, layer, decoder>>

\* decode_loop, the worker thread of the decoder of node n: it publishes a
\* frame.
DecodeLoop(n) ==
    /\ n \in DOMAIN state.video_nodes
    /\ ~state.video_nodes[n].latest
    /\ state' = [state EXCEPT !.video_nodes[n].latest = TRUE]
    /\ UNCHANGED <<graphVars, nameVars, gl, lastExec, sinkVars,
                   bankVars, layer, decoder>>

----------------------------------------------------------------------------
(* The host of the runtime: it builds a graph, compiles it and runs frames *)
(* of the plan on one RuntimeState.                                        *)

\* No frame has been run yet: the host is still building its graph.
Building == lastExec.call = 0

\* The host adds its nodes before it wires them.
BuildNode(kind) ==
    /\ Building
    /\ edges = <<>>
    /\ Cardinality(DOMAIN nodes) < MaxExecNodes
    /\ add_node(kind)

\* The names of the In ports of node n.
InNames(n) == {p.name : p \in {q \in Range(nodes[n].ports) : q.dir = "In"}}

\* The host wires the "out" port of a to an In port of b that has no driver.
BuildEdge(a, b, pb) ==
    /\ Building
    /\ Len(edges) < MaxExecEdges
    /\ ConnectNamedError(a, "out", b, pb) = ""
    /\ connect_named(a, "out", b, pb, <<>>)

\* The host compiles; it does not compile twice in a row.
BuildPlan == Building /\ lastOp.op # "compile" /\ Compile

\* Every function from a subset of D to R.
PartialFns(D, R) == UNION {[S -> R] : S \in SUBSET D}

NodesOfKind(kind) == {n \in DOMAIN nodes : nodes[n].kind = kind}

\* The render-pass nodes that have no built-in shader.
PassNodes ==
    {n \in DOMAIN nodes : /\ node_is_render_pass(nodes[n].kind)
                          /\ standard_op_for(nodes[n].kind) = ""}

Props(shaders, names, textures) ==
    [shader_sources |-> shaders, output_names |-> names,
     texture_inputs |-> textures, video_decode_cfg |-> <<>>]

\* A shader override with fragment text f for every node of PassNodes.
OverrideAll(f) == [n \in PassNodes |-> ShaderSource("FULLSCREEN_VERT", f)]

\* A host texture for every TextureInputPass node; the host's texture names
\* are apart from those the runtime creates.
HostTextures == [n \in NodesOfKind("TextureInputPass") |-> 1000 + n]

\* A FrameCtx at time 0, and one at a time of t whole seconds.
Frame(w, h) == [width |-> w, height |-> h, time |-> 0]

FrameAt(w, h, t) == [width |-> w, height |-> h, time |-> t]

\* The host keeps the NodeProps of its first frame.
KeepsProps(props) == lastExec.call = 0 \/ props = lastExec.props

----------------------------------------------------------------------------
(* SpecOutputs: graphs of shader passes and PixelsOut nodes behind a first *)
(* node of any of OutputsKinds, run through execute_plan and through       *)
(* execute_plan_outputs under every naming of the PixelsOut nodes.         *)

OutputsKinds == {"ShaderSource", "ShaderPass", "PixelsOut", "Window"}

OutputNameArgs == {"main", "preview", "program"}

\* execute_plan does not read output_names: it is called without any.
OutputsProps(named) ==
    {Props(OverrideAll("fragA"), names, <<>>) :
        names \in IF named
                  THEN PartialFns(NodesOfKind("PixelsOut"), OutputNameArgs)
                  ELSE {<<>>}}

NextOutputs ==
    \/ \E kind \in OutputsKinds :
          /\ DOMAIN nodes = {} \/ kind \in {"ShaderPass", "PixelsOut"}
          /\ BuildNode(kind)
    \/ \E a \in DOMAIN nodes, b \in DOMAIN nodes :
          \E pb \in InNames(b) : BuildEdge(a, b, pb)
    \/ BuildPlan
    \/ \E props \in OutputsProps(FALSE) :
          KeepsProps(props) /\ ExecutePlan(props, Frame(2, 2))
    \/ \E props \in OutputsProps(TRUE) :
          KeepsProps(props) /\ ExecutePlanOutputs(props, Frame(2, 2))

SpecOutputs == Init /\ [][NextOutputs]_vars

----------------------------------------------------------------------------
(* SpecBind: graphs of passes, at most one Crossfade and at most one       *)
(* PixelsOut, run through execute_plan; a graph of MaxExecNodes nodes      *)
(* holds a PixelsOut.  The first node may also be a MatrixMix4 or a        *)
(* TextureInputPass; the graph then holds at most MaxFrameNodes nodes.     *)

MaxFrameNodes == 3

BindKinds == {"ShaderPass", "Crossfade", "PixelsOut"}

BindFirstKinds == {"MatrixMix4", "TextureInputPass"}

NextBind ==
    \/ \E kind \in BindKinds \cup BindFirstKinds :
          /\ DOMAIN nodes = {} \/ kind \in BindKinds
          /\ kind \in {"PixelsOut", "Crossfade"} => NodesOfKind(kind) = {}
          /\ Cardinality(DOMAIN nodes) = MaxExecNodes - 1
                => kind = "PixelsOut" \/ NodesOfKind("PixelsOut") # {}
          /\ (\E n \in DOMAIN nodes : nodes[n].kind \in BindFirstKinds)
                => Cardinality(DOMAIN nodes) < MaxFrameNodes
          /\ BuildNode(kind)
    \/ \E a \in DOMAIN nodes, b \in DOMAIN nodes :
          \E pb \in InNames(b) : BuildEdge(a, b, pb)
    \/ BuildPlan
    \/ ExecutePlan(Props(OverrideAll("fragA"), <<>>, HostTextures), Frame(2, 2))

SpecBind == Init /\ [][NextBind]_vars

----------------------------------------------------------------------------
(* SpecPrograms: a graph of at most MaxFrameNodes passes and outputs, run  *)
(* through execute_plan with the shader overrides changing from frame to   *)
(* frame.                                                                  *)

FramesKinds == {"ShaderPass", "PixelsOut"}

ShaderTexts == {ShaderSource("FULLSCREEN_VERT", "fragA"),
                ShaderSource("FULLSCREEN_VERT", "fragB"),
                ShaderSource("vertB", "fragA"),
                ShaderSource("FULLSCREEN_VERT", "fragBad")}

BuildFrames ==
    \/ \E kind \in FramesKinds :
          Cardinality(DOMAIN nodes) < MaxFrameNodes /\ BuildNode(kind)
    \/ \E a \in DOMAIN nodes, b \in DOMAIN nodes :
          \E pb \in InNames(b) : BuildEdge(a, b, pb)
    \/ BuildPlan

NextPrograms ==
    \/ BuildFrames
    \/ \E shaders \in [PassNodes -> ShaderTexts] :
          ExecutePlan(Props(shaders, <<>>, <<>>), Frame(2, 2))

SpecPrograms == Init /\ [][NextPrograms]_vars

----------------------------------------------------------------------------
(* SpecSizes: the same graphs run through execute_plan with the frame size *)
(* changing from frame to frame.                                           *)

FrameSizes == {Frame(2, 2), Frame(3, 2), Frame(2, 1), Frame(0, 2)}

NextSizes ==
    \/ BuildFrames
    \/ \E frame \in FrameSizes :
          ExecutePlan(Props(OverrideAll("fragA"), <<>>, <<>>), frame)

SpecSizes == Init /\ [][NextSizes]_vars

----------------------------------------------------------------------------
(* SpecPasses: graphs of at most MaxFrameNodes nodes over the Processor    *)
(* and Mixer kinds and PixelsOut, run through execute_plan.  The kinds of  *)
(* PassesFirstKinds are given to a first node only.                        *)

PassesKinds == {"ShaderPass", "Blur", "KeyMix", "PixelsOut"}

PassesFirstKinds == {"ColorCorrect", "Keyer", "Feedback", "Crossfade"}

NextPasses ==
    \/ \E kind \in PassesKinds \cup PassesFirstKinds :
          /\ DOMAIN nodes = {} \/ kind \in PassesKinds
          /\ Cardinality(DOMAIN nodes) < MaxFrameNodes
          /\ BuildNode(kind)
    \/ \E a \in DOMAIN nodes, b \in DOMAIN nodes :
          \E pb \in InNames(b) : BuildEdge(a, b, pb)
    \/ BuildPlan
    \/ ExecutePlan(Props(OverrideAll("fragA"), <<>>, <<>>), Frame(2, 2))

SpecPasses == Init /\ [][NextPasses]_vars

----------------------------------------------------------------------------
(* SpecShaders: graphs of ShaderSource nodes and at most one ShaderPass,   *)
(* one KeyMix and one PixelsOut, run for one frame through execute_plan    *)
(* with a shader text for every subset of the nodes; a graph of            *)
(* MaxExecNodes nodes holds a PixelsOut.  The first node may also be a     *)
(* Crossfade; the graph then holds at most MaxFrameNodes nodes.            *)

ShadersKinds == {"ShaderSource", "ShaderPass", "KeyMix", "PixelsOut"}

ShadersFirstKinds == {"Crossfade"}

\* The text the host keeps for node n: one for the ShaderSource nodes,
\* another for the overrides of the passes.
HostText(n) ==
    IF nodes[n].kind = "ShaderSource"
    THEN ShaderSource("FULLSCREEN_VERT", "fragB")
    ELSE ShaderSource("FULLSCREEN_VERT", "fragA")

\* The nodes NodeProps.shader_sources may hold a text for.
TextNodes ==
    {n \in DOMAIN nodes : \/ nodes[n].kind = "ShaderSource"
                          \/ node_is_render_pass(nodes[n].kind)}

ShadersProps ==
    {Props([n \in S |-> HostText(n)], <<>>, <<>>) : S \in SUBSET TextNodes}

NextShaders ==
    \/ \E kind \in ShadersKinds \cup ShadersFirstKinds :
          /\ DOMAIN nodes = {} \/ kind \in ShadersKinds
          /\ kind # "ShaderSource" => NodesOfKind(kind) = {}
          /\ Cardinality(DOMAIN nodes) = MaxExecNodes - 1
                => kind = "PixelsOut" \/ NodesOfKind("PixelsOut") # {}
          /\ (\E n \in DOMAIN nodes : nodes[n].kind \in ShadersFirstKinds)
                => Cardinality(DOMAIN nodes) < MaxFrameNodes
          /\ BuildNode(kind)
    \/ \E a \in DOMAIN nodes, b \in DOMAIN nodes :
          \E pb \in InNames(b) : BuildEdge(a, b, pb)
    \/ BuildPlan
    \/ \E props \in ShadersProps :
          Building /\ ExecutePlan(props, Frame(2, 2))

SpecShaders == Init /\ [][NextShaders]_vars

----------------------------------------------------------------------------
(* SpecRebind: the same graphs run for up to MaxRebindFrames frames with   *)
(* the shader override of every pass changing from frame to frame.         *)

MaxRebindFrames == 3

RebindTexts == {ShaderSource("FULLSCREEN_VERT", "fragA"),
                ShaderSource("FULLSCREEN_VERT", "fragB"),
                ShaderSource("FULLSCREEN_VERT", "fragBad")}

NextRebind ==
    \/ BuildFrames
    \/ \E shaders \in [PassNodes -> RebindTexts] :
          /\ lastExec.call < MaxRebindFrames
          /\ ExecutePlanCall(Props(shaders, <<>>, <<>>), Frame(2, 2))

SpecRebind == Init /\ [][NextRebind]_vars

----------------------------------------------------------------------------
(* SpecTeardown: a graph of at most MaxFrameNodes passes and outputs       *)
(* behind an optional video source, run through execute_plan with the      *)
(* frame size, the time and the shader override changing from frame to     *)
(* frame, and destroyed at the end.                                        *)

\* The decoder configurations of the host: a good one and one without width.
VideoCfgs == {[width |-> 2, height |-> 2, fps |-> 1],
              [width |-> 0, height |-> 2, fps |-> 1]}

TeardownTexts == {"fragA", "fragB", "fragBad"}

TeardownFrames == {FrameAt(2, 2, 0), FrameAt(3, 2, 0), FrameAt(2, 2, 1)}

TeardownProps ==
    {[Props(OverrideAll(f), <<>>, <<>>) EXCEPT !.video_decode_cfg = cfgs] :
        f \in TeardownTexts,
        cfgs \in PartialFns(NodesOfKind("VideoDecodeSource"), VideoCfgs)}

NextTeardown ==
    \/ \E kind \in FramesKinds \cup {"VideoDecodeSource"} :
          /\ DOMAIN nodes = {} \/ kind \in FramesKinds
          /\ Cardinality(DOMAIN nodes) < MaxFrameNodes
          /\ BuildNode(kind)
    \/ \E a \in DOMAIN nodes, b \in DOMAIN nodes :
          \E pb \in InNames(b) : BuildEdge(a, b, pb)
    \/ BuildPlan
    \/ \E props \in TeardownProps, frame \in TeardownFrames :
          ExecutePlan(props, frame)
    \/ \E n \in DOMAIN nodes : DecodeLoop(n)
    \/ Destroy

SpecTeardown == Init /\ [][NextTeardown]_vars

----------------------------------------------------------------------------
(* SpecVideo: a video source followed by passes and outputs, run for up to *)
(* MaxVideoFrames frames with the time standing still, going on and going  *)
(* back, while the decoder publishes its first frame at any moment.        *)

MaxVideoFrames == 3

\* FrameCtx.time in whole seconds.
VideoTimes == {-1, 0, 1, 2}

\* Decoder configurations of 1 and 2 frames per second.
VideoRates == {[width |-> 2, height |-> 2, fps |-> 1],
               [width |-> 2, height |-> 2, fps |-> 2]}

NextVideo ==
    \/ \E kind \in FramesKinds \cup {"VideoDecodeSource"} :
          /\ DOMAIN nodes = {} <=> kind = "VideoDecodeSource"
          /\ Cardinality(DOMAIN nodes) < MaxFrameNodes
          /\ BuildNode(kind)
    \/ \E a \in DOMAIN nodes, b \in DOMAIN nodes :
          \E pb \in InNames(b) : BuildEdge(a, b, pb)
    \/ BuildPlan
    \/ \E cfg \in VideoRates, t \in VideoTimes :
          /\ lastExec.call < MaxVideoFrames
          /\ ExecutePlanCall(
                 [Props(OverrideAll("fragA"), <<>>, <<>>) EXCEPT
                     !.video_decode_cfg =
                         [n \in NodesOfKind("VideoDecodeSource") |-> cfg]],
                 FrameAt(2, 2, t))
    \/ \E n \in DOMAIN nodes : DecodeLoop(n)

SpecVideo == Init /\ [][NextVideo]_vars

----------------------------------------------------------------------------
(* SpecKeptPlan: the host keeps the plan it compiled, goes on wiring its   *)
(* graph of at most MaxFrameNodes nodes after the first frame and runs the *)
(* plan it kept.                                                           *)

\* The host wires a further edge after a frame has been run.
LateEdge(a, b, pb) ==
    /\ lastExec.op = "execute_plan"
    /\ Len(edges) < MaxExecEdges
    /\ ConnectNamedError(a, "out", b, pb) = ""
    /\ connect_named(a, "out", b, pb, <<>>)

\* execute_plan called with the graph as it is now and the plan of the call
\* before.
ExecuteKeptPlan(props, frame) ==
    /\ lastExec.op = "execute_plan"
    /\ lastExec.call < MaxFrames
    /\ \E r \in {execute_plan(state, gl, lastExec.plan, props, frame,
                                lastExec.call + 1)} :
           /\ state' = r.state
           /\ gl' = r.gl
           /\ lastExec' = Observed("execute_plan", r, lastExec.plan, props,
                                   frame, lastExec.call + 1)
    /\ UNCHANGED <<graphVars, nameVars, sinkVars, bankVars, layer, decoder>>

KeptPlanKinds == {"ShaderPass", "Crossfade", "PixelsOut"}

NextKeptPlan ==
    \/ \E kind \in KeptPlanKinds :
          /\ kind \in {"PixelsOut", "Crossfade"} => NodesOfKind(kind) = {}
          /\ Cardinality(DOMAIN nodes) < MaxFrameNodes
          /\ BuildNode(kind)
    \/ \E a \in DOMAIN nodes, b \in DOMAIN nodes :
          \E pb \in InNames(b) : BuildEdge(a, b, pb)
    \/ BuildPlan
    \/ /\ Building
       /\ ExecutePlanCall(Props(OverrideAll("fragA"), <<>>, <<>>), Frame(2, 2))
    \/ \E a \in DOMAIN nodes, b \in DOMAIN nodes :
          \E pb \in InNames(b) : LateEdge(a, b, pb)
    \/ ExecuteKeptPlan(Props(OverrideAll("fragA"), <<>>, <<>>), Frame(2, 2))

SpecKeptPlan == Init /\ [][NextKeptPlan]_vars

----------------------------------------------------------------------------
(* PatchbaySink: named output routing.                                     *)

\* consume_named is called at most this many times.
MaxConsumes == 2

\* add_route is called while fewer sinks than this are registered.
MaxSinks == 3

\* PatchbaySink::add_route: routes.entry(name).or_default().push(sink).
add_route(rts, name, sink) ==
    IF name \in DOMAIN rts
    THEN [rts EXCEPT ![name] = Append(@, sink)]
    ELSE MapInsert(rts, name, <<sink>>)

\* `for s in sinks.iter_mut() { s.consume(gl, out) }` from the i-th sink on:
\* a sink of the model records the output it is handed.
RECURSIVE RouteSinks(_, _, _, _)
RouteSinks(calls, sinks, i, out) ==
    IF i > Len(sinks) THEN calls
    ELSE RouteSinks([calls EXCEPT ![sinks[i]] = Append(@, out)],
                    sinks, i + 1, out)

\* Mutant of consume_named: a route whose name is not among the outputs is
\* passed over.
RECURSIVE consume_named_skipping(_, _, _, _, _)
consume_named_skipping(rts, calls, order, i, outs) ==
    IF i > Len(order) THEN [err |-> "", calls |-> calls]
    ELSE IF order[i] \notin DOMAIN outs
    THEN consume_named_skipping(rts, calls, order, i + 1, outs)
    ELSE consume_named_skipping(rts,
                       RouteSinks(calls, rts[order[i]], 1, outs[order[i]]),
                       order, i + 1, outs)

\* PatchbaySink::consume_named from the i-th route on, `order` being the
\* order in which the HashMap yields its keys: the error of an early return
\* and what the sinks have consumed.
RECURSIVE consume_named(_, _, _, _, _)
consume_named(rts, calls, order, i, outs) ==
    IF i > Len(order) THEN [err |-> "", calls |-> calls]
    ELSE IF order[i] \notin DOMAIN outs
    THEN [err |-> "PatchbaySink: missing named output", calls |-> calls]
    ELSE consume_named(rts,
                       RouteSinks(calls, rts[order[i]], 1, outs[order[i]]),
                       order, i + 1, outs)

\* The host registers a new sink on route `name`.
AddRoute(name) ==
    /\ Cardinality(DOMAIN sink_calls) < MaxSinks
    /\ LET sink == Cardinality(DOMAIN sink_calls)
       IN  /\ routes' = add_route(routes, name, sink)
           /\ sink_calls' = MapInsert(sink_calls, sink, <<>>)
    /\ lastSink' = [NoSinkOp EXCEPT !.op = "add_route", !.args = <<name>>,
                                    !.count = lastSink.count]
    /\ UNCHANGED <<graphVars, nameVars, execVars, tap, readback,
                   bankVars, layer, decoder>>

\* The host hands the named outputs of a frame to the patchbay.
ConsumeNamed(outs) ==
    /\ lastSink.count < MaxConsumes
    /\ \E order \in IterOrders(DOMAIN routes) :
          \E r \in {consume_named(routes, sink_calls, order, 1, outs)} :
             /\ sink_calls' = r.calls
             /\ lastSink' = [op |-> "consume_named", ok |-> r.err = "",
                             err |-> r.err, args |-> outs,
                             count |-> lastSink.count + 1, read |-> FALSE,
                             log |-> <<>>]
    /\ UNCHANGED <<graphVars, nameVars, execVars, routes, tap, readback,
                   bankVars, layer, decoder>>

\* SpecPatchbay: routes added under three names, and outputs handed over
\* under every subset of three names, one of which has no route.
RouteNames == {"main", "preview", "program"}

ProducedNames == {"main", "preview", "aux"}

\* The ExecOutput values handed to the sinks of the model.
SinkOutputs == {[tex |-> 2, fbo |-> 1, width |-> 2, height |-> 2],
                [tex |-> 4, fbo |-> 3, width |-> 2, height |-> 2]}

NextPatchbay ==
    \/ \E name \in RouteNames : AddRoute(name)
    \/ \E outs \in PartialFns(ProducedNames, SinkOutputs) : ConsumeNamed(outs)

SpecPatchbay == Init /\ [][NextPatchbay]_vars

----------------------------------------------------------------------------
(* HistoryTapSink: a ring of the last frames.                              *)

\* HistoryTapSink::new is called with a length of at most this.
MaxTapLen == 3

\* HistoryTapSink::consume is called at most this many times.
MaxTapFrames == 5

\* x.max(1)
Max1(x) == IF x < 1 THEN 1 ELSE x

\* HistoryTapSink::new: Vec::with_capacity(len.max(1)); the Vec of a
\* RenderTarget has the capacity it was asked for.
HistoryTapSinkNew(len) ==
    [made |-> TRUE, frames |-> <<>>, write_idx |-> 0, capacity |-> Max1(len)]

\* What the k-th output handed to the tap shows.
Captured(k) == [frame |-> k]

\* Mutant of tex_at: the slot written next is taken for the newest.
tex_at_from_write_idx(t, age) ==
    IF t.frames = <<>> THEN 0
    ELSE LET n == Len(t.frames)
             newest == t.write_idx % n
             idx == (newest + n - (age % n)) % n
         IN  t.frames[idx + 1].tex

\* HistoryTapSink::tex_at, 0 for None; frames[i] of the code is
\* frames[i + 1] here.
tex_at(t, age) ==
    IF t.frames = <<>> THEN 0
    ELSE LET n == Len(t.frames)
             newest == (t.write_idx + n - 1) % n
             idx == (newest + n - (age % n)) % n
         IN  t.frames[idx + 1].tex

\* for rt in frames.drain(..) { delete_framebuffer; delete_texture }
RECURSIVE DeleteFrames(_, _, _)
DeleteFrames(g, frames, i) ==
    IF i > Len(frames) THEN g
    ELSE DeleteFrames([g EXCEPT !.deleted = @ \o <<frames[i].fbo, frames[i].tex>>],
                      frames, i + 1)

\* for _ in 0..want_len { frames.push(create_render_target(gl, w, h)?) }
RECURSIVE AllocFrames(_, _, _, _, _)
AllocFrames(g, frames, want_len, w, h) ==
    IF Len(frames) >= want_len THEN [gl |-> g, frames |-> frames]
    ELSE CHOOSE r \in
            {AllocFrames(c.gl, Append(frames, c.rt), want_len, w, h) :
                c \in {create_render_target(g, w, h)}} : TRUE

\* HistoryTapSink::ensure_allocated: the ring is made anew when it has not
\* want_len slots or its first slot has not the size asked for.
ensure_allocated(g, t, want_len, w, h) ==
    IF \/ Len(t.frames) # Max1(want_len)
       \/ t.frames[1].w # w \/ t.frames[1].h # h
    THEN LET a == AllocFrames(DeleteFrames(g, t.frames, 1), <<>>,
                              Max1(want_len), w, h)
         IN  [gl |-> a.gl,
              tap |-> [t EXCEPT !.frames = a.frames, !.write_idx = 0]]
    ELSE [gl |-> g, tap |-> t]

\* The end of consume: the output is blitted into the slot at write_idx,
\* which then moves on.
TapBlit(g, t, image) ==
    [gl |-> [g EXCEPT !.img = MapInsert(@,
                         t.frames[(t.write_idx % Len(t.frames)) + 1].tex, image)],
     tap |-> [t EXCEPT !.write_idx = (@ + 1) % Len(t.frames)]]

\* HistoryTapSink::consume of an output of size w x h that shows `image`.
tap_consume(g, t, w, h, image) ==
    CHOOSE r \in
        {TapBlit(e.gl, e.tap, image) :
            e \in {ensure_allocated(g, t, Max1(t.capacity), w, h)}} : TRUE

TapNew(len) ==
    /\ ~tap.made
    /\ tap' = HistoryTapSinkNew(len)
    /\ lastSink' = [NoSinkOp EXCEPT !.op = "tap_new", !.args = <<len>>]
    /\ UNCHANGED <<graphVars, nameVars, execVars, routes, sink_calls,
                   readback, bankVars, layer, decoder>>

\* The host hands its next frame, of size w x h, to the tap.
TapConsume(w, h) ==
    /\ tap.made
    /\ Len(lastSink.log) < MaxTapFrames
    /\ \E r \in {tap_consume(gl, tap, w, h, Captured(Len(lastSink.log) + 1))} :
          /\ gl' = r.gl
          /\ tap' = r.tap
    /\ lastSink' = [NoSinkOp EXCEPT !.op = "tap_consume", !.args = <<w, h>>,
                                    !.count = Len(lastSink.log) + 1,
                                    !.log = Append(lastSink.log, <<w, h>>)]
    /\ UNCHANGED <<graphVars, nameVars, state, lastExec, routes, sink_calls,
                   readback, bankVars, layer, decoder>>

\* SpecTap: a tap of every length up to MaxTapLen, fed frames of two sizes.
TapSizes == {<<2, 2>>, <<3, 2>>}

NextTap ==
    \/ \E len \in 0..MaxTapLen : TapNew(len)
    \/ \E sz \in TapSizes : TapConsume(sz[1], sz[2])

SpecTap == Init /\ [][NextTap]_vars

----------------------------------------------------------------------------
(* ReadbackSink: pixels read back to the CPU every stride-th frame.        *)

\* ReadbackSink::new and set_stride are called with a stride of at most this.
MaxStride == 3

\* ReadbackSink::consume is called at most this many times.
MaxReadbackFrames == 6

\* ReadbackSink::new
ReadbackSinkNew(stride) ==
    [made |-> TRUE, enabled |-> TRUE, stride |-> Max1(stride),
     frame_counter |-> 0, last_w |-> 0, last_h |-> 0]

set_enabled(rb, enabled) == [rb EXCEPT !.enabled = enabled]

set_stride(rb, stride) == [rb EXCEPT !.stride = Max1(stride)]

\* Mutant of readback_consume: a disabled sink counts the frame.
readback_consume_counting_all(rb, w, h) ==
    IF ~rb.enabled
    THEN [rb |-> [rb EXCEPT !.frame_counter = @ + 1], read |-> FALSE]
    ELSE IF (rb.frame_counter + 1) % rb.stride # 0
    THEN [rb |-> [rb EXCEPT !.frame_counter = @ + 1], read |-> FALSE]
    ELSE [rb |-> [rb EXCEPT !.frame_counter = @ + 1,
                            !.last_w = w, !.last_h = h],
          read |-> TRUE]

\* ReadbackSink::consume of an output of size w x h: the sink afterwards and
\* whether read_pixels was called.  frame_counter is a u64 and stays far
\* below 2^64.
readback_consume(rb, w, h) ==
    IF ~rb.enabled THEN [rb |-> rb, read |-> FALSE]
    ELSE IF (rb.frame_counter + 1) % rb.stride # 0
    THEN [rb |-> [rb EXCEPT !.frame_counter = @ + 1], read |-> FALSE]
    ELSE [rb |-> [rb EXCEPT !.frame_counter = @ + 1,
                            !.last_w = w, !.last_h = h],
          read |-> TRUE]

ReadbackNew(stride) ==
    /\ ~readback.made
    /\ readback' = ReadbackSinkNew(stride)
    /\ lastSink' = [NoSinkOp EXCEPT !.op = "readback_new", !.args = <<stride>>]
    /\ UNCHANGED <<graphVars, nameVars, execVars, routes, sink_calls, tap,
                   bankVars, layer, decoder>>

\* A call that sets a field of the sink; lastSink keeps the counts.
SetEnabled(enabled) ==
    /\ readback.made
    /\ readback' = set_enabled(readback, enabled)
    /\ lastSink' = [lastSink EXCEPT !.op = "set_enabled", !.args = <<enabled>>,
                                    !.read = FALSE]
    /\ UNCHANGED <<graphVars, nameVars, execVars, routes, sink_calls, tap,
                   bankVars, layer, decoder>>

SetStride(stride) ==
    /\ readback.made
    /\ readback' = set_stride(readback, stride)
    /\ lastSink' = [lastSink EXCEPT !.op = "set_stride", !.args = <<stride>>,
                                    !.read = FALSE]
    /\ UNCHANGED <<graphVars, nameVars, execVars, routes, sink_calls, tap,
                   bankVars, layer, decoder>>

\* The host hands a frame of size w x h to the sink.  lastSink.log holds the
\* sizes of all frames handed over, lastSink.count the number of those
\* handed over while the sink was enabled.
ReadbackConsume(w, h) ==
    /\ readback.made
    /\ Len(lastSink.log) < MaxReadbackFrames
    /\ \E r \in {readback_consume(readback, w, h)} :
          /\ readback' = r.rb
          /\ lastSink' = [lastSink EXCEPT
                             !.op = "readback_consume", !.args = <<w, h>>,
                             !.count = IF readback.enabled THEN @ + 1 ELSE @,
                             !.read = r.read,
                             !.log = Append(@, <<w, h>>)]
    /\ UNCHANGED <<graphVars, nameVars, execVars, routes, sink_calls, tap,
                   bankVars, layer, decoder>>

\* SpecReadback: one sink, its stride and its switch set at any time.
NextReadback ==
    \/ \E stride \in 0..MaxStride : ReadbackNew(stride)
    \/ \E enabled \in BOOLEAN : SetEnabled(enabled)
    \/ \E stride \in 0..MaxStride : SetStride(stride)
    \/ \E sz \in TapSizes : ReadbackConsume(sz[1], sz[2])

SpecReadback == Init /\ [][NextReadback]_vars

----------------------------------------------------------------------------
(* scheng-runtime: BankSet::from_json_path on a document that was read and *)
(* parsed.                                                                 *)

\* A document holds at most this many banks, a bank this many scenes.
MaxBanks == 2

MaxScenes == 2

\* preset_from_str: Some(preset) for the names of the table, else None.
preset_from_str(str) ==
    CASE str \in {"solo0", "solo_0", "Solo0"} -> Some("Solo0")
      [] str \in {"solo1", "solo_1", "Solo1"} -> Some("Solo1")
      [] str \in {"solo2", "solo_2", "Solo2"} -> Some("Solo2")
      [] str \in {"solo3", "solo_3", "Solo3"} -> Some("Solo3")
      [] str \in {"quad", "Quad"}             -> Some("Quad")
      [] str \in {"sum01", "Sum01"}           -> Some("Sum01")
      [] str \in {"sum23", "Sum23"}           -> Some("Sum23")
      [] OTHER                                -> None

\* Mutant of ScenesLoop: a scene with an unknown preset is left out.
RECURSIVE ScenesLoopSkipping(_, _, _)
ScenesLoopSkipping(scenes, i, out) ==
    IF i > Len(scenes) THEN [err |-> "", scenes |-> out]
    ELSE IF preset_from_str(scenes[i].preset) = None
    THEN ScenesLoopSkipping(scenes, i + 1, out)
    ELSE ScenesLoopSkipping(scenes, i + 1,
                    Append(out, [name |-> scenes[i].name,
                                 preset |-> preset_from_str(scenes[i].preset)[1]]))

\* `for s in b.scenes` from the i-th scene on.
RECURSIVE ScenesLoop(_, _, _)
ScenesLoop(scenes, i, out) ==
    IF i > Len(scenes) THEN [err |-> "", scenes |-> out]
    ELSE IF preset_from_str(scenes[i].preset) = None
    THEN [err |-> "unknown preset", scenes |-> out]
    ELSE ScenesLoop(scenes, i + 1,
                    Append(out, [name |-> scenes[i].name,
                                 preset |-> preset_from_str(scenes[i].preset)[1]]))

\* `for b in root.banks` from the i-th bank on.
RECURSIVE BanksLoop(_, _, _)
BanksLoop(banks, i, out) ==
    IF i > Len(banks) THEN [err |-> "", banks |-> out]
    ELSE IF banks[i].scenes = <<>> THEN BanksLoop(banks, i + 1, out)
    ELSE CHOOSE r \in
            {IF sl.err # "" THEN [err |-> sl.err, banks |-> out]
             ELSE BanksLoop(banks, i + 1,
                            Append(out, [name |-> banks[i].name,
                                         scenes |-> sl.scenes])) :
                sl \in {ScenesLoop(banks[i].scenes, 1, <<>>)}} : TRUE

\* BankSet::from_json_path, root being what serde_json made of the file.
from_json_path(root) ==
    IF root.banks = <<>>
    THEN [done |-> TRUE, ok |-> FALSE, err |-> "json has no banks", banks |-> <<>>]
    ELSE CHOOSE r \in
            {IF bl.err # ""
             THEN [done |-> TRUE, ok |-> FALSE, err |-> bl.err, banks |-> <<>>]
             ELSE IF bl.banks = <<>>
             THEN [done |-> TRUE, ok |-> FALSE,
                   err |-> "json banks had no valid scenes", banks |-> <<>>]
             ELSE [done |-> TRUE, ok |-> TRUE, err |-> "", banks |-> bl.banks] :
                bl \in {BanksLoop(root.banks, 1, <<>>)}} : TRUE

\* The preset strings of the documents: names of the table, a name in
\* another case and a name that is no preset.
PresetArgs == {"solo_0", "Quad", "sum23", "SOLO0", "mix"}

SceneArgs == [name : {"A", "B"}, preset : PresetArgs]

BankArgs ==
    [name : {"X", "Y"},
     scenes : UNION {[1..n -> SceneArgs] : n \in 0..MaxScenes}]

BankDocs == [banks : UNION {[1..n -> BankArgs] : n \in 0..MaxBanks}]

InitBanks ==
    /\ next_node = 0
    /\ next_port = 0
    /\ nodes = <<>>
    /\ edges = <<>>
    /\ lastOp = NoOp
    /\ pixels_out = <<>>
    /\ name_plan = NoNamePlan
    /\ state = NewRuntimeState
    /\ gl = NewContext
    /\ lastExec = NoExec
    /\ routes = <<>>
    /\ sink_calls = <<>>
    /\ tap = NoTap
    /\ readback = NoReadback
    /\ lastSink = NoSinkOp
    /\ bank_doc \in BankDocs
    /\ bank_set = NoBankSet
    /\ layer = NoLayer
    /\ decoder = NoDecoder

FromJsonPath ==
    /\ ~bank_set.done
    /\ bank_set' = from_json_path(bank_doc)
    /\ UNCHANGED <<graphVars, nameVars, execVars, sinkVars,
                   bank_doc, layer, decoder>>

NextBanks == FromJsonPath

SpecBanks == InitBanks /\ [][NextBanks]_vars

----------------------------------------------------------------------------
(* VideoDecoder (crates/scheng-input-video): the decoder object, its       *)
(* worker thread running decode_loop and the thread that owns the decoder. *)

\* spawn_ffmpeg succeeds at most this many times.
MaxSpawns == 2

\* read_exact returns at most this many whole frames.
MaxDecodedFrames == 3

\* poll_rgba is called at most this many times.
MaxPolls == 2

\* cfg.file.trim().is_empty() for the file names of the model.
file_is_empty(file) == file \in {"", " "}

\* The checks of VideoDecoder::from_config: the message of the error, ""
\* for none.
decoder_config_error(cfg) ==
    IF file_is_empty(cfg.file) THEN "file is empty" ELSE from_config(cfg)

\* The VideoFrame decode_loop makes of the n-th buffer it has read.
VideoFrame(cfg, n) == [width |-> cfg.width, height |-> cfg.height, bytes |-> n]

\* Mutant of stop_load: the worker never sees the flag.
stop_never_seen(d) == FALSE

\* stop.load(Ordering::SeqCst)
stop_load(d) == d.stop

\* Mutant of poll_latest: nothing is returned once the worker has
\* returned.
poll_latest_while_running(d) ==
    IF d.latest = <<>> \/ d.worker = "exited"
    THEN [ok |-> FALSE, err |-> "NoFrameYet", frame |-> <<>>]
    ELSE [ok |-> TRUE, err |-> "", frame |-> d.latest]

\* The body of poll_rgba under the lock: a clone of the frame in `latest`,
\* NoFrameYet when there is none.
poll_latest(d) ==
    IF d.latest = <<>>
    THEN [ok |-> FALSE, err |-> "NoFrameYet", frame |-> <<>>]
    ELSE [ok |-> TRUE, err |-> "", frame |-> d.latest]

\* let _ = child.kill(); let _ = child.wait();
kill_and_wait(d) == [d EXCEPT !.child = "reaped", !.reaped = @ + 1]

\* The worker returns from decode_loop.
worker_return(d, why) == [d EXCEPT !.worker = "exited", !.exit = why]

\* VideoDecoder::from_config: an invalid configuration is refused; else the
\* worker thread is spawned, at the top of decode_loop.
DecoderFromConfig(cfg) ==
    /\ ~decoder.made /\ decoder.err = ""
    /\ decoder' =
          IF decoder_config_error(cfg) # ""
          THEN [decoder EXCEPT !.err = decoder_config_error(cfg)]
          ELSE [decoder EXCEPT !.made = TRUE, !.cfg = cfg, !.worker = "loop"]
    /\ UNCHANGED <<graphVars, nameVars, execVars, sinkVars, bankVars, layer>>

\* The worker at `while !stop.load(..)`: it returns when the flag is set;
\* else it spawns ffmpeg, which succeeds or fails; on failure it returns
\* when looping is off and sleeps when it is on.
WorkerLoop(spawn_ok) ==
    /\ decoder.worker = "loop"
    /\ (spawn_ok /\ ~stop_load(decoder)) => decoder.spawned < MaxSpawns
    /\ decoder' =
          IF stop_load(decoder) THEN worker_return(decoder, "stop_at_loop")
          ELSE IF spawn_ok
               THEN [decoder EXCEPT !.logged_spawn_error = FALSE,
                                    !.child = "running", !.spawned = @ + 1,
                                    !.worker = "read"]
          ELSE IF ~decoder.cfg.loop
               THEN worker_return([decoder EXCEPT !.logged_spawn_error = TRUE],
                                  "spawn_failed")
          ELSE [decoder EXCEPT !.logged_spawn_error = TRUE,
                               !.worker = "sleep"]
    /\ UNCHANGED <<graphVars, nameVars, execVars, sinkVars, bankVars, layer>>

\* thread::sleep(500 ms) ends; `continue`.
WorkerSleep ==
    /\ decoder.worker = "sleep"
    /\ decoder' = [decoder EXCEPT !.worker = "loop"]
    /\ UNCHANGED <<graphVars, nameVars, execVars, sinkVars, bankVars, layer>>

\* The worker at the top of the inner loop: when the flag is set it kills
\* and reaps the child and returns; else it starts read_exact.
WorkerCheck ==
    /\ decoder.worker = "read"
    /\ decoder' =
          IF stop_load(decoder)
          THEN worker_return(kill_and_wait(decoder), "stop_at_read")
          ELSE [decoder EXCEPT !.worker = "reading"]
    /\ UNCHANGED <<graphVars, nameVars, execVars, sinkVars, bankVars, layer>>

\* read_exact returns: with a whole frame, which is put behind `latest`;
\* or with an error (end of stream), after which the child is killed and
\* reaped and the worker goes back to spawn when looping is on and returns
\* when it is off.
WorkerRead(read_ok) ==
    /\ decoder.worker = "reading"
    /\ read_ok => Len(decoder.published) < MaxDecodedFrames
    /\ decoder' =
          IF read_ok
          THEN LET frame == VideoFrame(decoder.cfg, Len(decoder.published) + 1)
               IN  [decoder EXCEPT !.latest = <<frame>>,
                                   !.published = Append(@, frame),
                                   !.worker = "read"]
          ELSE IF decoder.cfg.loop
               THEN [kill_and_wait(decoder) EXCEPT !.worker = "loop"]
               ELSE worker_return(kill_and_wait(decoder), "eof")
    /\ UNCHANGED <<graphVars, nameVars, execVars, sinkVars, bankVars, layer>>

\* VideoDecoder::poll_rgba, called by the thread that owns the decoder.
PollRgba ==
    /\ decoder.made /\ ~decoder.stop
    /\ decoder.polls < MaxPolls
    /\ decoder' = [decoder EXCEPT !.polls = @ + 1,
                                  !.ret = <<poll_latest(decoder)>>]
    /\ UNCHANGED <<graphVars, nameVars, execVars, sinkVars, bankVars, layer>>

\* Drop for VideoDecoder, first half: stop.store(true).
DropDecoder ==
    /\ decoder.made /\ ~decoder.stop
    /\ decoder' = [decoder EXCEPT !.stop = TRUE]
    /\ UNCHANGED <<graphVars, nameVars, execVars, sinkVars, bankVars, layer>>

\* Drop for VideoDecoder, second half: handle.join() returns once the
\* worker has returned.
JoinWorker ==
    /\ decoder.stop /\ ~decoder.joined
    /\ decoder.worker = "exited"
    /\ decoder' = [decoder EXCEPT !.joined = TRUE]
    /\ UNCHANGED <<graphVars, nameVars, execVars, sinkVars, bankVars, layer>>

\* The configurations handed to from_config: looping and not, and one for
\* each check.
DecoderConfigs ==
    {[file |-> "clip.mp4", width |-> 2, height |-> 2, fps |-> 1, loop |-> l] :
        l \in BOOLEAN}
      \cup {[file |-> " ", width |-> 2, height |-> 2, fps |-> 1, loop |-> TRUE],
            [file |-> "clip.mp4", width |-> 0, height |-> 2, fps |-> 1,
             loop |-> TRUE],
            [file |-> "clip.mp4", width |-> 2, height |-> 2, fps |-> 0,
             loop |-> TRUE]}

\* The steps of the worker thread.
Worker ==
    \/ \E spawn_ok \in BOOLEAN : WorkerLoop(spawn_ok)
    \/ WorkerSleep
    \/ WorkerCheck
    \/ \E read_ok \in BOOLEAN : WorkerRead(read_ok)

NextDecoder ==
    \/ \E cfg \in DecoderConfigs : DecoderFromConfig(cfg)
    \/ Worker
    \/ PollRgba
    \/ DropDecoder
    \/ JoinWorker

SpecDecoder == Init /\ [][NextDecoder]_vars

\* The worker thread is scheduled, every sleep ends and every read_exact
\* returns; join returns once the worker has.
SpecDecoderFair == SpecDecoder /\ WF_vars(Worker) /\ WF_vars(JoinWorker)

----------------------------------------------------------------------------
(* ControlLayer (crates/scrubbable_controls): transport and colour state   *)
(* driven by key presses and OSC messages.                                 *)

\* on_key and on_osc are called at most this many times.
MaxControlEvents == 4

\* x < y and x > y on f32: false when either side is NaN.
f32_lt(x, y) ==
    CASE x.k = "nan" \/ y.k = "nan" -> FALSE
      [] x.k = "inf" -> x.v < 0 /\ y # x
      [] y.k = "inf" -> y.v > 0
      [] OTHER -> x.v < y.v

f32_gt(x, y) == f32_lt(y, x)

\* x + y on f32; the sums of the model are far from overflow.
f32_add(x, y) ==
    CASE x.k = "nan" \/ y.k = "nan" -> NaN
      [] x.k = "inf" /\ y.k = "inf" -> IF x.v = y.v THEN x ELSE NaN
      [] x.k = "inf" -> x
      [] y.k = "inf" -> y
      [] OTHER -> Fin(x.v + y.v)

Sign(x) == IF x.v < 0 THEN -1 ELSE 1

\* x * y on f32; the products of the model are far from overflow.
f32_mul(x, y) ==
    CASE x.k = "nan" \/ y.k = "nan" -> NaN
      [] x.k = "inf" \/ y.k = "inf" ->
            IF x = Fin(0) \/ y = Fin(0) THEN NaN ELSE Inf(Sign(x) * Sign(y))
      [] OTHER -> Fin(x.v * y.v)

\* clamp_f32
clamp_f32(x, min, max) ==
    IF f32_lt(x, min) THEN min
    ELSE IF f32_gt(x, max) THEN max
    ELSE x

\* parse_osc_f32, <<>> for None: the numeric OscTypes give their value.
parse_osc_f32(arg) ==
    IF arg.t \in {"Float", "Double", "Int", "Long"} THEN <<arg.v>> ELSE <<>>

\* A ConcreteAction; the kinds without a field carry Fin(0).
Action(kind, arg) == [kind |-> kind, arg |-> arg]

\* Keymap::from_config from the i-th binding on: the first char of the key
\* is bound, a binding with an empty key is passed over, a later binding
\* of a char replaces the earlier.  A key is the sequence of its chars.
RECURSIVE KeymapFromConfig(_, _, _)
KeymapFromConfig(cfgs, i, bindings) ==
    IF i > Len(cfgs) THEN bindings
    ELSE KeymapFromConfig(cfgs, i + 1,
            IF cfgs[i].key # <<>>
            THEN MapInsert(bindings, cfgs[i].key[1], cfgs[i].action)
            ELSE bindings)

\* Oscmap::from_config from the i-th binding on.
RECURSIVE OscmapFromConfig(_, _, _)
OscmapFromConfig(cfgs, i, bindings) ==
    IF i > Len(cfgs) THEN bindings
    ELSE OscmapFromConfig(cfgs, i + 1,
                          MapInsert(bindings, cfgs[i].addr, cfgs[i].kind))

\* Keymap::lookup, <<>> for None.
KeymapLookup(keymap, ch) ==
    IF ch \in DOMAIN keymap THEN <<keymap[ch]>> ELSE <<>>

\* The OscActionKinds that read no argument.
OscPlainKinds == {"TogglePause", "Pause", "Play"}

\* The ConcreteActionKind an OscActionKind with an argument becomes.
OscConcreteKind(kind) ==
    CASE kind = "SetSpeedFromArg"        -> "SetSpeed"
      [] kind = "NudgeSpeedFromArg"      -> "NudgeSpeed"
      [] kind = "JumpNormFromArg"        -> "JumpNorm"
      [] kind = "ScrubDeltaFromArg"      -> "ScrubDelta"
      [] kind = "BrightnessDeltaFromArg" -> "BrightnessDelta"
      [] kind = "ContrastDeltaFromArg"   -> "ContrastDelta"
      [] kind = "SaturationDeltaFromArg" -> "SaturationDelta"

\* msg.args.first().and_then(parse_osc_f32)
to_f32_arg(msg) == IF msg.args = <<>> THEN <<>> ELSE parse_osc_f32(msg.args[1])

\* Oscmap::lookup, <<>> for None.
OscmapLookup(oscmap, msg) ==
    IF msg.addr \notin DOMAIN oscmap THEN <<>>
    ELSE IF oscmap[msg.addr] \in OscPlainKinds
         THEN <<Action(oscmap[msg.addr], Fin(0))>>
    ELSE IF to_f32_arg(msg) = <<>> THEN <<>>
    ELSE <<Action(OscConcreteKind(oscmap[msg.addr]), to_f32_arg(msg)[1])>>

\* ConcreteAction::apply on the transport and colour state of layer l.
apply(act, l) ==
    LET tr == l.transport
        col == l.color
    IN  CASE act.kind = "TogglePause" ->
                [l EXCEPT !.transport.paused = ~tr.paused]
          [] act.kind = "Pause" -> [l EXCEPT !.transport.paused = TRUE]
          [] act.kind = "Play" ->
                [l EXCEPT !.transport.paused = FALSE,
                          !.transport.speed =
                              IF tr.speed = Fin(0) THEN Fin(1) ELSE tr.speed]
          [] act.kind = "SetSpeed" ->
                [l EXCEPT !.transport.speed = act.arg,
                          !.transport.paused =
                              IF act.arg # Fin(0) THEN FALSE ELSE tr.paused]
          [] act.kind = "NudgeSpeed" ->
                [l EXCEPT !.transport.speed = f32_mul(tr.speed, act.arg)]
          [] act.kind = "ScrubDelta" ->
                [l EXCEPT !.transport.scrub_delta =
                              f32_add(tr.scrub_delta, act.arg)]
          [] act.kind = "JumpNorm" ->
                [l EXCEPT !.transport.norm_pos =
                              clamp_f32(act.arg, Fin(0), Fin(1))]
          [] act.kind = "BrightnessDelta" ->
                [l EXCEPT !.color.brightness =
                              clamp_f32(f32_add(col.brightness, act.arg),
                                        Fin(-2), Fin(2))]
          [] act.kind = "ContrastDelta" ->
                [l EXCEPT !.color.contrast =
                              clamp_f32(f32_add(col.contrast, act.arg),
                                        Fin(0), Fin(4))]
          [] act.kind = "SaturationDelta" ->
                [l EXCEPT !.color.saturation =
                              clamp_f32(f32_add(col.saturation, act.arg),
                                        Fin(0), Fin(4))]

\* ControlLayer::from_config
control_from_config(cfg) ==
    [made |-> TRUE, transport |-> DefaultTransport, color |-> DefaultColor,
     keymap |-> KeymapFromConfig(cfg.keys, 1, <<>>),
     oscmap |-> OscmapFromConfig(cfg.osc, 1, <<>>), calls |-> 0]

\* ControlLayer::on_key
on_key(l, ch) ==
    IF KeymapLookup(l.keymap, ch) = <<>> THEN l
    ELSE apply(KeymapLookup(l.keymap, ch)[1], l)

\* ControlLayer::on_osc
on_osc(l, msg) ==
    IF OscmapLookup(l.oscmap, msg) = <<>> THEN l
    ELSE apply(OscmapLookup(l.oscmap, msg)[1], l)

\* The configuration of the model: a key for every KeyActionKind, one
\* binding without a key and one key bound twice, and an address for every
\* OscActionKind.
ControlConfig ==
    [keys |-> <<[key |-> <<" ">>, action |-> Action("TogglePause", Fin(0))],
                [key |-> <<"p">>, action |-> Action("Pause", Fin(0))],
                [key |-> <<"l">>, action |-> Action("Play", Fin(0))],
                [key |-> <<"s">>, action |-> Action("SetSpeed", Fin(0))],
                [key |-> <<"n">>, action |-> Action("NudgeSpeed", Fin(2))],
                [key |-> <<"d">>, action |-> Action("ScrubDelta", Fin(1))],
                [key |-> <<"j">>, action |-> Action("JumpNorm", Fin(1))],
                [key |-> <<>>, action |-> Action("JumpNorm", Fin(0))],
                [key |-> <<"b">>, action |-> Action("BrightnessDelta", Fin(-1))],
                [key |-> <<"b", "r">>,
                 action |-> Action("BrightnessDelta", Fin(1))],
                [key |-> <<"c">>, action |-> Action("ContrastDelta", Fin(-1))],
                [key |-> <<"a">>, action |-> Action("SaturationDelta", Fin(2))]>>,
     osc |-> <<[addr |-> "/pause/toggle", kind |-> "TogglePause"],
               [addr |-> "/pause", kind |-> "Pause"],
               [addr |-> "/play", kind |-> "Play"],
               [addr |-> "/speed", kind |-> "SetSpeedFromArg"],
               [addr |-> "/nudge", kind |-> "NudgeSpeedFromArg"],
               [addr |-> "/jump", kind |-> "JumpNormFromArg"],
               [addr |-> "/scrub", kind |-> "ScrubDeltaFromArg"],
               [addr |-> "/brightness", kind |-> "BrightnessDeltaFromArg"],
               [addr |-> "/contrast", kind |-> "ContrastDeltaFromArg"],
               [addr |-> "/saturation", kind |-> "SaturationDeltaFromArg"]>>]

\* The keys pressed: the bound ones and one that is not.
KeysPressed == {" ", "p", "l", "s", "n", "d", "j", "b", "c", "a", "z"}

\* The addresses of the messages received: the bound ones and one that is
\* not.
OscAddrs == {ControlConfig.osc[i].addr : i \in DOMAIN ControlConfig.osc}
               \cup {"/none"}

\* The argument lists of the messages received: none, a string, an int and
\* floats, the NaN and the infinities among them.
OscArgLists ==
    {<<>>, <<[t |-> "String", v |-> Fin(0)]>>, <<[t |-> "Int", v |-> Fin(3)]>>}
       \cup {<<[t |-> "Float", v |-> x]>> :
                x \in {Fin(-10), Fin(1), NaN, Inf(1), Inf(-1)}}

ControlFromConfig ==
    /\ ~layer.made
    /\ layer' = control_from_config(ControlConfig)
    /\ UNCHANGED <<graphVars, nameVars, execVars, sinkVars, bankVars,
                   decoder>>

OnKey(ch) ==
    /\ layer.made
    /\ layer.calls < MaxControlEvents
    /\ layer' = [on_key(layer, ch) EXCEPT !.calls = layer.calls + 1]
    /\ UNCHANGED <<graphVars, nameVars, execVars, sinkVars, bankVars,
                   decoder>>

OnOsc(msg) ==
    /\ layer.made
    /\ layer.calls < MaxControlEvents
    /\ layer' = [on_osc(layer, msg) EXCEPT !.calls = layer.calls + 1]
    /\ UNCHANGED <<graphVars, nameVars, execVars, sinkVars, bankVars,
                   decoder>>

NextControl ==
    \/ ControlFromConfig
    \/ \E ch \in KeysPressed : OnKey(ch)
    \/ \E addr \in OscAddrs, args \in OscArgLists :
          OnOsc([addr |-> addr, args |-> args])

SpecControl == Init /\ [][NextControl]_vars

----------------------------------------------------------------------------
(* Properties of the graph.                                                *)

\* Port `pid` is a port of node n and has direction d.
IsPortOf(n, pid, d) ==
    /\ n \in DOMAIN nodes
    /\ \E p \in Range(nodes[n].ports) : p.id = pid /\ p.dir = d

\* The edges whose target is port `pid` of node n.
DriversOf(n, pid) ==
    {i \in DOMAIN edges : edges[i].to.node = n /\ edges[i].to.port = pid}

\* C1: two successive compile() calls, with no other call between them,
\* return the same outcome, the same node ordering and the same edge count.
CompileIsDeterministic ==
    [][(lastOp'.op = "compile" /\ lastOp'.repeat) =>
          /\ lastOp'.ok = lastOp.ok
          /\ lastOp'.ret.nodes = lastOp.ret.nodes
          /\ Len(lastOp'.ret.edges) = Len(lastOp.ret.edges)]_vars

\* C1 witness: a graph of three nodes and two edges compiled twice in a row.
CompiledTwice ==
    /\ lastOp.op = "compile" /\ lastOp.repeat /\ lastOp.ok
    /\ Len(lastOp.ret.nodes) = 3
    /\ Len(lastOp.ret.edges) = 2

\* C2: a connect() call that fails leaves the edge list, the nodes and the
\* id counters exactly as they were before the call.
FailedConnectChangesNothing ==
    [][(lastOp'.op = "connect" /\ ~lastOp'.ok) =>
          /\ edges' = edges
          /\ nodes' = nodes
          /\ next_node' = next_node
          /\ next_port' = next_port]_vars

\* C2 witness: connect was refused because its `to` port already had a driver.
SecondConnectRefused ==
    /\ lastOp.op = "connect"
    /\ lastOp.err = "connect: input already connected"
    /\ Len(edges) >= 1

\* C3: no In port of any node is the target of more than one edge.
SingleDriver ==
    \A n \in DOMAIN nodes :
        \A p \in Range(nodes[n].ports) :
            p.dir = "In" => Cardinality(DriversOf(n, p.id)) <= 1

\* C3 witness: two In ports are driven and a further connect_named onto a
\* driven port was refused.
DrivenPortRefusedByName ==
    /\ lastOp.op = "connect_named"
    /\ lastOp.err = "connect: input already connected"
    /\ Len(edges) = 2
    /\ \A i \in DOMAIN edges :
          IsPortOf(edges[i].to.node, edges[i].to.port, "In")

\* C5: a successful compile() returns every node id exactly once in strictly
\* ascending order, and the edge list as it is at the time of the call.
PlanIsSortedSnapshot ==
    (lastOp.op = "compile" /\ lastOp.ok) =>
        LET pn == lastOp.ret.nodes
        IN  /\ Len(pn) = Cardinality(DOMAIN nodes)
            /\ Range(pn) = DOMAIN nodes
            /\ \A i \in 1..(Len(pn) - 1) : pn[i] < pn[i + 1]
            /\ lastOp.ret.edges = edges

\* C5 witness: three nodes compiled, the edges having been connected against
\* the creation order (the first edge targets the later node).
CompiledAgainstEdgeOrder ==
    /\ lastOp.op = "compile" /\ lastOp.ok
    /\ Cardinality(DOMAIN nodes) = 3
    /\ Len(edges) = 2
    /\ edges[1].to.node > edges[2].to.node

\* C6: every stored edge runs from an actual Out port of its from-node to an
\* actual In port of its to-node (connect refuses a port that does not
\* belong to its stated node and direction).
EdgesRunOutToIn ==
    \A e \in Range(edges) :
        /\ IsPortOf(e.from.node, e.from.port, "Out")
        /\ IsPortOf(e.to.node, e.to.port, "In")

\* C8: node ids are distinct and increase in creation order (the graph holds
\* the ids 0 .. next_node - 1, each node under its own id, later nodes
\* holding higher port ids), port ids are pairwise distinct across the graph
\* and each belongs to exactly one node.
IdsUniqueAndIncreasing ==
    /\ DOMAIN nodes = 0..(next_node - 1)
    /\ \A n \in DOMAIN nodes :
          /\ nodes[n].id = n
          /\ \A p \in Range(nodes[n].ports) : p.id \in 0..(next_port - 1)
          /\ \A i, j \in DOMAIN nodes[n].ports :
                i < j => nodes[n].ports[i].id < nodes[n].ports[j].id
    /\ \A m, n \in DOMAIN nodes :
          \A p \in Range(nodes[m].ports), q \in Range(nodes[n].ports) :
             /\ p.id = q.id => m = n
             /\ m < n => p.id < q.id

\* C8 witness: a third node added after two edges were connected.
NodeAddedAfterConnects ==
    /\ lastOp.op = "add_node"
    /\ Cardinality(DOMAIN nodes) = 3
    /\ Len(edges) = 2
    /\ \E n \in DOMAIN nodes : Len(nodes[n].ports) >= 2

\* C4: compile() returns an error if and only if some node of an Output kind
\* has an In port that is the target of no edge; a graph with no Output node
\* compiles.
CompileFailsIffOutputUndriven ==
    lastOp.op = "compile" =>
        (~lastOp.ok <=>
            \E n \in DOMAIN nodes :
                /\ nodes[n].kind \in {"Window", "TextureOut", "PixelsOut", "Syphon",
                                      "Spout", "Recorder", "Ndi", "Rtsp"}
                /\ \E p \in Range(nodes[n].ports) :
                      p.dir = "In" /\ DriversOf(n, p.id) = {})

\* C4 witness: compile refused a graph whose first Output node (an Rtsp) is
\* undriven while a later Output node is driven.
CompileRefusedMixedOutputs ==
    /\ lastOp.op = "compile" /\ ~lastOp.ok
    /\ 0 \in DOMAIN nodes /\ nodes[0].kind = "Rtsp"
    /\ DriversOf(0, nodes[0].ports[1].id) = {}
    /\ \E n \in DOMAIN nodes :
          /\ nodes[n].kind = "PixelsOut"
          /\ DriversOf(n, nodes[n].ports[1].id) # {}

\* The port set the class convention fixes for a kind, as (name, direction).
ConventionPorts(kind) ==
    CASE kind \in {"ShaderSource", "NoiseSource", "PreviousFrame",
                   "TextureInputPass", "VideoDecodeSource"}
            -> {<<"out", "Out">>}
      [] kind \in {"ShaderPass", "ColorCorrect", "Blur", "Keyer", "Feedback"}
            -> {<<"in", "In">>, <<"out", "Out">>}
      [] kind \in {"Crossfade", "Add", "Multiply", "KeyMix"}
            -> {<<"a", "In">>, <<"b", "In">>, <<"out", "Out">>}
      [] kind = "MatrixMix4"
            -> {<<"in0", "In">>, <<"in1", "In">>, <<"in2", "In">>, <<"in3", "In">>,
                <<"out", "Out">>}
      [] kind \in {"Window", "TextureOut", "PixelsOut", "Syphon", "Spout",
                   "Recorder", "Ndi", "Rtsp"}
            -> {<<"in", "In">>}

\* C7: add_node(kind) succeeds, adds one node under a fresh id with exactly
\* the port set the convention fixes for its kind, and changes no existing
\* node, port or edge.
AddNodeGivesConventionPorts ==
    [][lastOp'.op = "add_node" =>
          LET id == lastOp'.ret
          IN  /\ lastOp'.ok
              /\ id \notin DOMAIN nodes
              /\ DOMAIN nodes' = DOMAIN nodes \cup {id}
              /\ \A n \in DOMAIN nodes : nodes'[n] = nodes[n]
              /\ edges' = edges
              /\ nodes'[id].id = id
              /\ {<<p.name, p.dir>> : p \in Range(nodes'[id].ports)}
                    = ConventionPorts(nodes'[id].kind)
              /\ Len(nodes'[id].ports)
                    = Cardinality(ConventionPorts(nodes'[id].kind))]_vars

\* C7 witness: a node added to a graph that already holds a KeyMix node and
\* an edge.
NodeAddedToWiredMixer ==
    /\ lastOp.op = "add_node"
    /\ lastOp.ret > 0
    /\ nodes[0].kind = "KeyMix"
    /\ Len(edges) >= 1

\* Node n has a port of direction d named `name`.
HasPortNamed(n, name, d) ==
    /\ n \in DOMAIN nodes
    /\ \E p \in Range(nodes[n].ports) : p.name = name /\ p.dir = d

\* C9: connect_named(a, pa, b, pb) fails without changing the graph when a has
\* no Out port named pa or b has no In port named pb; otherwise its result
\* and its effect on the edge list are those of connect on the endpoints
\* find_port returns.
ConnectNamedIsConnectOnFoundPorts ==
    [][lastOp'.op = "connect_named" =>
          LET a  == lastOp'.args[1]
              pa == lastOp'.args[2]
              b  == lastOp'.args[3]
              pb == lastOp'.args[4]
              from == Endpoint(a, find_port(a, pa, "Out"), "Out")
              to   == Endpoint(b, find_port(b, pb, "In"), "In")
          IN  /\ nodes' = nodes /\ next_node' = next_node /\ next_port' = next_port
              /\ IF ~HasPortNamed(a, pa, "Out") \/ ~HasPortNamed(b, pb, "In")
                 THEN ~lastOp'.ok /\ edges' = edges
                 ELSE /\ lastOp'.ok = (ConnectError(from, to) = "")
                      /\ lastOp'.err = ConnectError(from, to)
                      /\ edges' = ConnectEdges(from, to)
                      /\ IsPortOf(a, from.port, "Out") /\ IsPortOf(b, to.port, "In")]_vars

\* C9 witness: connect_named wired an "out" port to the "b" port of a mixer
\* as the second edge.
NamedEdgeIntoMixerB ==
    /\ lastOp.op = "connect_named" /\ lastOp.ok
    /\ lastOp.args[2] = "out" /\ lastOp.args[4] = "b"
    /\ Len(edges) = 2
    /\ edges[2].from.node = lastOp.args[1]
    /\ edges[2].to.node = lastOp.args[3]

----------------------------------------------------------------------------
(* Properties of plan_output_names.                                        *)

\* The entries of pixels_out that carry no name / an explicit name.
UnnamedEntries == {i \in DOMAIN pixels_out : pixels_out[i][2] = None}

NamedEntries == DOMAIN pixels_out \ UnnamedEntries

\* C10: plan_output_names succeeds if and only if the list holds exactly one
\* entry without a name, no entry named "main" and no two entries with the
\* same name; on success `primary` is the unnamed entry's node and `named`
\* maps every explicit name to its node and nothing else.
OutputNamesContract ==
    name_plan.done =>
        /\ name_plan.ok <=>
              /\ Cardinality(UnnamedEntries) = 1
              /\ \A i \in NamedEntries : pixels_out[i][2] # Some("main")
              /\ \A i, j \in NamedEntries :
                    i # j => pixels_out[i][2] # pixels_out[j][2]
        /\ name_plan.ok =>
              /\ \E i \in UnnamedEntries : name_plan.primary = pixels_out[i][1]
              /\ DOMAIN name_plan.named = {pixels_out[i][2][1] : i \in NamedEntries}
              /\ \A i \in NamedEntries :
                    name_plan.named[pixels_out[i][2][1]] = pixels_out[i][1]

\* C10 witness: two named entries followed by the unnamed one are accepted.
NamesAcceptedUnnamedLast ==
    /\ name_plan.done /\ name_plan.ok
    /\ Len(pixels_out) = 3
    /\ pixels_out[1][2] = Some("program")
    /\ pixels_out[2][2] = Some("preview")
    /\ pixels_out[3][2] = None
    /\ name_plan.primary = pixels_out[3][1]

----------------------------------------------------------------------------
(* Properties of execute_plan and execute_plan_outputs.                    *)

Ran(op) == lastExec.op = op

Succeeded(op) == lastExec.op = op /\ lastExec.ok

\* The PixelsOut nodes of the plan of the last call, and those among them
\* without / with an entry in NodeProps.output_names.
PlanPixelsOut ==
    {n \in Range(lastExec.plan.nodes) : nodes[n].kind = "PixelsOut"}

UnnamedOutputs ==
    {n \in PlanPixelsOut : n \notin DOMAIN lastExec.props.output_names}

NamedOutputs == PlanPixelsOut \ UnnamedOutputs

\* The node whose port drives the input of PixelsOut node n.
DrivingNode(n) ==
    edges[CHOOSE i \in DOMAIN edges : edges[i].to.node = n].from.node

\* The render-pass nodes of the plan of the last call, in plan order.
PlanRenderPasses ==
    SelectSeq(lastExec.plan.nodes,
              LAMBDA n : nodes[n].kind = "ShaderPass"
                         \/ nodes[n].kind \in MixerKinds)

\* The draws the last call issued for node n.
DrawsOf(n) == {i \in DOMAIN lastExec.draws : lastExec.draws[i].node = n}

\* C11: execute_plan_outputs succeeds only if exactly one PixelsOut node of
\* the plan has no name in NodeProps.output_names.
OutputsNeedOneUnnamed ==
    Succeeded("execute_plan_outputs") => Cardinality(UnnamedOutputs) = 1

\* C12: when execute_plan_outputs succeeds, "main" is in the mapping, equals
\* the primary output, and is the current target of the pass driving the one
\* PixelsOut node that has no name.
MainIsTheUnnamedOutput ==
    Succeeded("execute_plan_outputs") =>
        /\ "main" \in DOMAIN lastExec.named
        /\ lastExec.named["main"] = lastExec.out
        /\ Cardinality(UnnamedOutputs) = 1 =>
              \A u \in UnnamedOutputs :
                 /\ DrivingNode(u) \in DOMAIN state.targets
                 /\ lastExec.out.tex = state.targets[DrivingNode(u)].curr.tex

\* C13: execute_plan_outputs fails, and returns no mapping, when a PixelsOut
\* node of the plan is named "main" or two of them carry the same name.
ReservedAndDuplicateNamesFail ==
    (/\ Ran("execute_plan_outputs")
     /\ \/ \E n \in NamedOutputs : lastExec.props.output_names[n] = "main"
        \/ \E n, m \in NamedOutputs :
              /\ n # m
              /\ lastExec.props.output_names[n] = lastExec.props.output_names[m])
    => ~lastExec.ok /\ lastExec.named = <<>> /\ lastExec.out = NoOutput

\* C13 witness: the frame itself was drawn and the call was refused for the
\* second of two PixelsOut nodes named alike, a third one being unnamed.
DuplicateNameRefused ==
    /\ Ran("execute_plan_outputs")
    /\ lastExec.err = "execute_plan_outputs: duplicate output name"
    /\ lastExec.draws # <<>>
    /\ Cardinality(NamedOutputs) = 2
    /\ Cardinality(UnnamedOutputs) = 1

\* C14: a successful call draws once for every render-pass node of the plan,
\* in plan order, which is ascending node id; every named output is the
\* target its driving pass drew into in this call and is that pass's
\* current target.
OneDrawPerRenderPass ==
    (Succeeded("execute_plan") \/ Succeeded("execute_plan_outputs")) =>
        /\ [i \in DOMAIN lastExec.draws |-> lastExec.draws[i].node]
              = PlanRenderPasses
        /\ \A i, j \in DOMAIN lastExec.draws :
              i < j => lastExec.draws[i].node < lastExec.draws[j].node
        /\ \A n \in NamedOutputs :
              LET o == lastExec.named[lastExec.props.output_names[n]]
                  d == DrivingNode(n)
              IN  /\ \E i \in DrawsOf(d) : lastExec.draws[i].target = o.tex
                  /\ state.targets[d].curr.tex = o.tex
                  /\ gl.img[o.tex] = Drawn(d, lastExec.call)

\* C14 witness: a second frame through execute_plan_outputs drew two passes
\* and returned two named outputs beside "main".
TwoPassesTwoNamedOutputs ==
    /\ Succeeded("execute_plan_outputs")
    /\ lastExec.call = 2
    /\ Len(lastExec.draws) = 2
    /\ Cardinality(DOMAIN lastExec.named) = 3

\* The channel the contract gives an input port name.
ChannelOfName(name) ==
    CASE name \in {"in", "a", "in0"} -> 0
      [] name \in {"b", "in1"}       -> 1
      [] name = "in2"                -> 2
      [] name = "in3"                -> 3

\* The name of port pid of node n.
PortName(n, pid) ==
    (CHOOSE q \in Range(nodes[n].ports) : q.id = pid).name

EdgesInto(n) == {i \in DOMAIN edges : edges[i].to.node = n}

IsPass(n) == nodes[n].kind = "ShaderPass" \/ nodes[n].kind \in MixerKinds

\* The image node u offers to a draw of node n in call c: what u drew
\* earlier in this call when it comes before n in the plan, else what it
\* drew in the call before.
UpstreamImage(u, n, c) ==
    IF u < n THEN Drawn(u, c)
    ELSE IF c > 1 THEN Drawn(u, c - 1)
    ELSE Undefined

\* Edge i brings an image to the draw of its target node n in call c: its
\* source is a host texture, or a pass that has a target by then.
BringsImage(i, n, c) ==
    LET u == edges[i].from.node
    IN  \/ nodes[u].kind = "TextureInputPass"
        \/ IsPass(u) /\ (u <= n \/ c > 1)

\* C15: for every node drawn, the textures bound are those of its incoming
\* edges, each on the channel of the target port's name, in strictly
\* ascending channel order (so one at most per channel), whatever the order
\* of the edge list.
InputsBoundByPortName ==
    \A n \in DOMAIN lastExec.binds :
        LET b == lastExec.binds[n]
            c == lastExec.call
        IN  /\ \A k \in DOMAIN b : \A l \in DOMAIN b :
                  k < l => b[k].ch < b[l].ch
            /\ Len(b) = Cardinality({i \in EdgesInto(n) : BringsImage(i, n, c)})
            /\ \A i \in EdgesInto(n) :
                  BringsImage(i, n, c) =>
                     \E k \in DOMAIN b :
                        /\ b[k].ch = ChannelOfName(PortName(n, edges[i].to.port))
                        /\ b[k].img =
                              IF IsPass(edges[i].from.node)
                              THEN UpstreamImage(edges[i].from.node, n, c)
                              ELSE HostImage

\* C15 witness: two ShaderPass nodes feed a Crossfade; "b" was connected
\* before "a"; the draw of the mixer has the pass behind "a" on channel 0
\* and the pass behind "b" on channel 1.
MixerBoundAgainstEdgeOrder ==
    /\ Succeeded("execute_plan")
    /\ \E m \in DOMAIN lastExec.binds :
          /\ nodes[m].kind = "Crossfade"
          /\ Len(lastExec.binds[m]) = 2
          /\ \E i, j \in EdgesInto(m) :
                /\ i < j
                /\ PortName(m, edges[i].to.port) = "b"
                /\ PortName(m, edges[j].to.port) = "a"
                /\ nodes[edges[i].from.node].kind = "ShaderPass"
                /\ nodes[edges[j].from.node].kind = "ShaderPass"
                /\ edges[i].from.node # edges[j].from.node
                /\ lastExec.binds[m][1] =
                      [ch |-> 0,
                       tex |-> state.targets[edges[j].from.node].curr.tex,
                       img |-> Drawn(edges[j].from.node, lastExec.call)]
                /\ lastExec.binds[m][2] =
                      [ch |-> 1,
                       tex |-> state.targets[edges[i].from.node].curr.tex,
                       img |-> Drawn(edges[i].from.node, lastExec.call)]

\* The (vertex, fragment) text node n runs in the last call: its override.
TextOf(n) == lastExec.props.shader_sources[n]

SelfEdges(n) == {i \in EdgesInto(n) : edges[i].from.node = n}

\* C17: a node drawn in a call after the first whose own output is wired to
\* one of its inputs has that input under the name "history" and has bound
\* on it the image it drew in the call before.
HistoryInputGetsPreviousFrame ==
    \A n \in DOMAIN lastExec.binds :
        lastExec.call > 1 =>
           \A i \in SelfEdges(n) :
              /\ PortName(n, edges[i].to.port) = "history"
              /\ \E k \in DOMAIN lastExec.binds[n] :
                    lastExec.binds[n][k].img = Drawn(n, lastExec.call - 1)

\* The first PixelsOut node of the plan of the last call.
FirstPixelsOut == CHOOSE o \in PlanPixelsOut : \A n \in PlanPixelsOut : o <= n

\* C18: a successful execute_plan returns the target that the render pass
\* driving the primary output drew into in this call; execute_plan fails
\* when the primary output is driven by a node that is not a render pass.
OutputIsDrivingPassTarget ==
    (Ran("execute_plan") /\ PlanPixelsOut # {}) =>
        LET d == DrivingNode(FirstPixelsOut)
        IN  /\ lastExec.ok =>
                 /\ IsPass(d)
                 /\ \E i \in DrawsOf(d) :
                       lastExec.draws[i].target = lastExec.out.tex
                 /\ gl.img[lastExec.out.tex] = Drawn(d, lastExec.call)
                 /\ lastExec.out.tex = state.targets[d].curr.tex
                 /\ lastExec.out.fbo = state.targets[d].curr.fbo
            /\ ~IsPass(d) => ~lastExec.ok /\ lastExec.out = NoOutput

\* C18 witness: in a second frame two passes were drawn and the output is
\* the target of the first of them, which drives the primary output.
OutputOfFirstOfTwoPasses ==
    /\ Succeeded("execute_plan")
    /\ lastExec.call = 2
    /\ Len(lastExec.draws) = 2
    /\ DrivingNode(FirstPixelsOut) = lastExec.draws[1].node
    /\ lastExec.out.tex = lastExec.draws[1].target

\* C19 as stated: a successful execute_plan returns an output of the width
\* and height of the call's FrameCtx.
OutputSizedToFrame ==
    Succeeded("execute_plan") =>
        /\ lastExec.out.width = lastExec.frame.width
        /\ lastExec.out.height = lastExec.frame.height

\* C19 amended: a successful execute_plan returns an output of the width
\* and height of the call's FrameCtx, each raised to 1 when it is below 1,
\* and both targets of the driving pass have that size.
OutputSizedToClampedFrame ==
    Succeeded("execute_plan") =>
        LET w == IF lastExec.frame.width < 1 THEN 1 ELSE lastExec.frame.width
            h == IF lastExec.frame.height < 1 THEN 1 ELSE lastExec.frame.height
            d == DrivingNode(FirstPixelsOut)
        IN  /\ lastExec.out.width = w /\ lastExec.out.height = h
            /\ state.targets[d].curr.w = w /\ state.targets[d].curr.h = h
            /\ state.targets[d].prev.w = w /\ state.targets[d].prev.h = h

\* C19 witness: a second frame of another size than the first: the output
\* is 3 x 2 and the target drawn in the first frame was given new storage.
OutputResizedInSecondFrame ==
    /\ Succeeded("execute_plan")
    /\ lastExec.call = 2
    /\ lastExec.frame = Frame(3, 2)
    /\ lastExec.out.width = 3 /\ lastExec.out.height = 2
    /\ LET d == DrivingNode(FirstPixelsOut)
       IN  /\ state.targets[d].prev.w = 3
           /\ gl.img[state.targets[d].prev.tex] = Undefined

\* The nodes of an Output kind in the plan of the last call.
PlanOutputs ==
    {n \in Range(lastExec.plan.nodes) : nodes[n].kind \in OutputKinds}

MissingOutput == "execute_plan: missing PixelsOut node in plan"

\* C20 as stated: execute_plan takes a node of the Output class as primary
\* output and fails for a missing output exactly when the plan holds no
\* node of the Output class.
MissingOutputIffNoOutputNode ==
    Ran("execute_plan") =>
        /\ lastExec.err = MissingOutput <=> PlanOutputs = {}
        /\ lastExec.err # MissingOutput => lastExec.out_node \in PlanOutputs

\* C20 amended: execute_plan takes the first PixelsOut node of the plan as
\* primary output and fails for a missing output exactly when the plan
\* holds no PixelsOut node.
MissingOutputIffNoPixelsOut ==
    Ran("execute_plan") =>
        /\ lastExec.err = MissingOutput <=> PlanPixelsOut = {}
        /\ lastExec.err # MissingOutput => lastExec.out_node = FirstPixelsOut
        /\ lastExec.err = MissingOutput =>
              ~lastExec.ok /\ lastExec.draws = <<>> /\ state = NewRuntimeState

\* C20 witness: a plan whose only output is a Window driven by a pass is
\* refused for a missing output.
WindowOnlyPlanRefused ==
    /\ Ran("execute_plan")
    /\ lastExec.err = MissingOutput
    /\ \E n \in PlanOutputs :
          nodes[n].kind = "Window" /\ nodes[DrivingNode(n)].kind = "ShaderPass"

\* C21: a node is never drawn with an input left unbound whose edge comes
\* from a render pass: every such edge into a node drawn in the last call
\* has a texture bound on the channel of its port.
MissingUpstreamReported ==
    \A n \in DOMAIN lastExec.binds :
        \A i \in EdgesInto(n) :
            IsPass(edges[i].from.node) =>
                \E k \in DOMAIN lastExec.binds[n] :
                    lastExec.binds[n][k].ch =
                        ChannelOfName(PortName(n, edges[i].to.port))

\* The nodes of the plan of the last call.
PlanNodes == Range(lastExec.plan.nodes)

\* C22 as stated: in a successful frame every plan node of a Processor or
\* Mixer kind owns a ping-pong pair and has one draw issued for it.
ProcessorsAndMixersAreDrawn ==
    Succeeded("execute_plan") =>
        \A n \in PlanNodes :
            class(nodes[n].kind) \in {"Processor", "Mixer"} =>
                /\ n \in DOMAIN state.targets
                /\ Cardinality(DrawsOf(n)) = 1

\* C22 amended: in a successful frame every plan node that is a ShaderPass
\* or of a Mixer kind owns a ping-pong pair of two targets and has one draw
\* issued for it, into its current target; every other plan node, those of
\* the other Processor kinds among them, owns no pair and has no draw.
ShaderPassesAndMixersAreDrawn ==
    Succeeded("execute_plan") =>
        \A n \in PlanNodes :
            IF nodes[n].kind = "ShaderPass" \/ class(nodes[n].kind) = "Mixer"
            THEN /\ n \in DOMAIN state.targets
                 /\ state.targets[n].curr.tex # state.targets[n].prev.tex
                 /\ Cardinality(DrawsOf(n)) = 1
                 /\ \A i \in DrawsOf(n) :
                       lastExec.draws[i].target = state.targets[n].curr.tex
            ELSE /\ n \notin DOMAIN state.targets
                 /\ DrawsOf(n) = {}

\* C22 witness: a successful frame over a plan that holds a Blur, which was
\* not drawn, a KeyMix and a ShaderPass, which were.
BlurSkippedMixerDrawn ==
    /\ Succeeded("execute_plan")
    /\ \E b, m, q \in PlanNodes :
          /\ nodes[b].kind = "Blur" /\ DrawsOf(b) = {}
          /\ nodes[m].kind = "KeyMix" /\ DrawsOf(m) # {}
          /\ nodes[q].kind = "PixelsOut" /\ DrivingNode(q) = m

\* The texts NodeProps holds for the ShaderSource nodes that drive an
\* incoming edge of node n.
SourceTexts(n) ==
    {lastExec.props.shader_sources[edges[i].from.node] :
        i \in {j \in EdgesInto(n) :
                  /\ nodes[edges[j].from.node].kind = "ShaderSource"
                  /\ edges[j].from.node \in DOMAIN lastExec.props.shader_sources}}

HasBuiltin(n) == nodes[n].kind \in {"Crossfade", "Add", "Multiply", "MatrixMix4"}

\* The texts the stated order resolves for node n: the override, else the
\* built-in text of its kind, else a text of SourceTexts(n).
ResolvedTexts(n) ==
    IF n \in DOMAIN lastExec.props.shader_sources
    THEN {lastExec.props.shader_sources[n]}
    ELSE IF HasBuiltin(n)
    THEN {ShaderSource("FULLSCREEN_VERT",
                       IF nodes[n].kind = "MatrixMix4"
                       THEN "MATRIXMIX4_FRAG" ELSE "CROSSFADE_FRAG")}
    ELSE SourceTexts(n)

ShaderErrors ==
    {"execute_plan: missing shader source",
     "execute_plan: missing ShaderSource in NodeProps"}

\* C23: a node drawn runs the text the stated order resolves for it; the
\* call fails on the shader of a node, which is then not drawn, exactly when
\* the node has no override, no built-in and no ShaderSource with a text on
\* an incoming edge.
ShaderResolvedInOrder ==
    (Ran("execute_plan") /\ PlanPixelsOut # {}) =>
        /\ \A n \in PlanNodes :
              IsPass(n) =>
                 /\ DrawsOf(n) # {} =>
                       \E t \in ResolvedTexts(n) :
                          state.programs[n].key =
                             [vert_hash |-> hash_str(t.vert),
                              frag_hash |-> hash_str(t.frag)]
                 /\ ResolvedTexts(n) = {} => ~lastExec.ok /\ DrawsOf(n) = {}
        /\ lastExec.err \in ShaderErrors =>
              \E n \in PlanNodes :
                 IsPass(n) /\ ResolvedTexts(n) = {} /\ DrawsOf(n) = {}

----------------------------------------------------------------------------
(* Properties of the sinks.                                                *)

\* C24: consume_named fails if and only if the name of some route is not
\* among the outputs; when it succeeds, every sink of every route has
\* consumed once more, the output stored under the name of its route.
PatchbayRoutesEveryOutput ==
    [][(lastSink'.op = "consume_named"
        /\ lastSink'.count = lastSink.count + 1) =>
          LET outs == lastSink'.args
          IN  /\ ~lastSink'.ok <=>
                    \E name \in DOMAIN routes : name \notin DOMAIN outs
              /\ lastSink'.ok =>
                    \A name \in DOMAIN routes :
                       \A i \in DOMAIN routes[name] :
                          sink_calls'[routes[name][i]] =
                             Append(sink_calls[routes[name][i]], outs[name])]_vars

\* C24 witness: a successful consume_named over two routes, one with two
\* sinks: the two sinks of "main" consumed one output, the sink of
\* "preview" another.
TwoRoutesThreeSinksServed ==
    /\ lastSink.op = "consume_named" /\ lastSink.ok
    /\ DOMAIN routes = {"main", "preview"}
    /\ Len(routes["main"]) = 2
    /\ \A i \in DOMAIN routes["main"] :
          sink_calls[routes["main"][i]] = <<lastSink.args["main"]>>
    /\ sink_calls[routes["preview"][1]] = <<lastSink.args["preview"]>>
    /\ lastSink.args["main"] # lastSink.args["preview"]

\* Every output handed to the tap so far had the same size.
ConstantSize == \A i, j \in DOMAIN lastSink.log : lastSink.log[i] = lastSink.log[j]

\* C25: a tap that has consumed k >= 1 outputs of one size has as many
\* slots as its length N, all different, and a write index below N;
\* tex_at(a) for a < min(k, N) is the slot that holds the frame handed over
\* a calls before the last; once k >= N the slot written next holds the
\* oldest frame kept.
HistoryRingHoldsLastFrames ==
    (lastSink.op = "tap_consume" /\ ConstantSize) =>
        LET k == Len(lastSink.log)
            N == tap.capacity
        IN  /\ Len(tap.frames) = N
            /\ tap.write_idx \in 0..(N - 1)
            /\ \A i, j \in DOMAIN tap.frames :
                  i # j => tap.frames[i].tex # tap.frames[j].tex
            /\ \A a \in 0..(N - 1) :
                  a < k => gl.img[tex_at(tap, a)] = Captured(k - a)
            /\ k >= N =>
                  gl.img[tap.frames[tap.write_idx + 1].tex] = Captured(k - N + 1)
            /\ gl.deleted = <<>>

\* C25 witness: a tap of length 3 after 5 frames of one size: it has gone
\* round once and holds frames 5, 4 and 3.
RingWentRound ==
    /\ lastSink.op = "tap_consume" /\ ConstantSize
    /\ Len(lastSink.log) = 5
    /\ tap.capacity = 3
    /\ tap.write_idx = 2
    /\ gl.img[tex_at(tap, 0)] = Captured(5)
    /\ gl.img[tex_at(tap, 2)] = Captured(3)

\* The stride in force: a stride of 0 is taken as 1.
StrideInForce(st) == IF st = 0 THEN 1 ELSE st

\* The stride the sink was last given, by new or by set_stride, is kept in
\* the sink as the stride in force.
StrideKept ==
    lastSink.op \in {"readback_new", "set_stride"} =>
        readback.stride = StrideInForce(lastSink.args[1])

\* C26: a consume call on an enabled sink is the next of the calls counted
\* and reads pixels back exactly when their number is then a multiple of
\* the stride; a consume call on a disabled sink reads nothing back and
\* leaves the sink, its count included, as it was.
ReadbackEveryStride ==
    [][(lastSink'.op = "readback_consume"
        /\ Len(lastSink'.log) = Len(lastSink.log) + 1) =>
          /\ StrideKept /\ readback.stride >= 1
          /\ readback.frame_counter = lastSink.count
          /\ IF readback.enabled
             THEN /\ readback'.frame_counter = lastSink.count + 1
                  /\ lastSink'.read <=>
                        (lastSink.count + 1) % readback.stride = 0
                  /\ lastSink'.read =>
                        <<readback'.last_w, readback'.last_h>> = lastSink'.args
             ELSE /\ ~lastSink'.read
                  /\ readback' = readback]_vars

\* C26 witness: a sink of stride 2 that was switched off for one of five
\* frames read back on the fifth, the fourth it counted.
ReadbackAfterPause ==
    /\ lastSink.op = "readback_consume" /\ lastSink.read
    /\ readback.stride = 2
    /\ Len(lastSink.log) = 5
    /\ lastSink.count = 4

----------------------------------------------------------------------------
(* Properties of the lifetime of the runtime's objects.                    *)

\* The names of the objects RuntimeState st owns: its cached programs, the
\* framebuffers and textures of its pairs, the textures of its video nodes.
OwnedHandles(st) ==
    {st.program_cache[k] : k \in DOMAIN st.program_cache}
    \cup UNION {Range(TargetHandles(st.targets[n])) : n \in DOMAIN st.targets}
    \cup {st.video_nodes[n].tex : n \in DOMAIN st.video_nodes}

\* How often name h was handed to a delete call.
TimesDeleted(g, h) == Cardinality({i \in DOMAIN g.deleted : g.deleted[i] = h})

\* C27: no step before destroy (a frame that succeeds or fails, at any size
\* and with any override, or a step of a decoder) deletes anything, every
\* object the state owned stays owned, and the output returned last stays
\* backed by objects the state owns; destroy deletes every object the state
\* owns exactly once and leaves the four maps empty.
DeletedOnlyByDestroy ==
    [][/\ lastExec'.op # "destroy" =>
            /\ gl'.deleted = <<>>
            /\ OwnedHandles(state) \subseteq OwnedHandles(state')
            /\ (lastExec.ok /\ lastExec.call > 0) =>
                   {lastExec.out.tex, lastExec.out.fbo}
                       \subseteq OwnedHandles(state')
       /\ (lastExec'.op = "destroy" /\ lastExec.op # "destroy") =>
            /\ \A h \in OwnedHandles(state) : TimesDeleted(gl', h) = 1
            /\ Range(gl'.deleted) = OwnedHandles(state)
            /\ state'.programs = <<>> /\ state'.program_cache = <<>>
            /\ state'.targets = <<>> /\ state'.video_nodes = <<>>]_vars

\* C27 witness: after a frame at another size than the first, with another
\* override and a decoded video frame uploaded, the state was destroyed:
\* two programs, two pairs' worth of names and the video texture are
\* deleted.
DestroyedAfterResize ==
    /\ lastExec.op = "destroy" /\ lastExec.call = 2 /\ lastExec.ok
    /\ lastExec.frame.width = 3
    /\ Len(gl.compiled) = 2
    /\ Len(gl.deleted) = 2 + 4 + 1
    /\ \E t \in DOMAIN gl.img : gl.img[t].by = 0 /\ gl.img[t].call > 0

----------------------------------------------------------------------------
(* Properties of the bank configuration.                                   *)

\* The names of the preset table.
PresetTable ==
    {"solo0", "solo_0", "Solo0", "solo1", "solo_1", "Solo1",
     "solo2", "solo_2", "Solo2", "solo3", "solo_3", "Solo3",
     "quad", "Quad", "sum01", "Sum01", "sum23", "Sum23"}

\* The banks of the document that have a scene, in document order.
BanksWithScenes == SelectSeq(bank_doc.banks, LAMBDA b : b.scenes # <<>>)

\* Every scene of every bank that has scenes names a preset of the table.
AllPresetsKnown ==
    \A i \in DOMAIN bank_doc.banks :
        \A j \in DOMAIN bank_doc.banks[i].scenes :
            bank_doc.banks[i].scenes[j].preset \in PresetTable

\* C28: the load succeeds exactly when the document has a bank, a bank has
\* a scene and every preset named is in the table; the result is then the
\* banks that have scenes, in order, each with all its scenes in order and
\* under their names, so no bank of the result is empty; one unknown preset
\* fails the load.
BankSetHoldsBanksWithScenes ==
    bank_set.done =>
        /\ bank_set.ok <=> (/\ bank_doc.banks # <<>>
                            /\ BanksWithScenes # <<>>
                            /\ AllPresetsKnown)
        /\ ~AllPresetsKnown => ~bank_set.ok /\ bank_set.err = "unknown preset"
        /\ bank_set.ok =>
              /\ Len(bank_set.banks) = Len(BanksWithScenes)
              /\ \A i \in DOMAIN bank_set.banks :
                    /\ bank_set.banks[i].name = BanksWithScenes[i].name
                    /\ bank_set.banks[i].scenes # <<>>
                    /\ Len(bank_set.banks[i].scenes)
                          = Len(BanksWithScenes[i].scenes)
                    /\ \A j \in DOMAIN bank_set.banks[i].scenes :
                          /\ bank_set.banks[i].scenes[j].name
                                = BanksWithScenes[i].scenes[j].name
                          /\ Some(bank_set.banks[i].scenes[j].preset)
                                = preset_from_str(BanksWithScenes[i].scenes[j].preset)

\* C28 witness: a document of an empty bank and a bank of two scenes was
\* loaded into one bank of two scenes.
EmptyBankDropped ==
    /\ bank_set.done /\ bank_set.ok
    /\ Len(bank_doc.banks) = 2
    /\ bank_doc.banks[1].scenes = <<>>
    /\ Len(bank_set.banks) = 1
    /\ Len(bank_set.banks[1].scenes) = 2
    /\ bank_set.banks[1].scenes[1].preset # bank_set.banks[1].scenes[2].preset

----------------------------------------------------------------------------
(* Properties of consecutive frames.                                       *)

\* This step is a successful execute_plan call that follows a successful
\* one.
SecondOfTwoFrames ==
    /\ lastExec.op = "execute_plan" /\ lastExec.ok
    /\ lastExec'.op = "execute_plan" /\ lastExec'.ok
    /\ lastExec'.call = lastExec.call + 1

\* The pair of node n was swapped once by this step and drawn into: the
\* target written is the one that was `prev`, `prev` is the one written in
\* the call before and still holds that image, `curr` holds the image of
\* this call.
SwappedOnce(n) ==
    /\ n \in DOMAIN state.targets /\ n \in DOMAIN state'.targets
    /\ state'.targets[n].curr.tex = state.targets[n].prev.tex
    /\ state'.targets[n].prev.tex = state.targets[n].curr.tex
    /\ state'.targets[n].curr.tex # state.targets[n].curr.tex
    /\ gl'.img[state'.targets[n].prev.tex] = Drawn(n, lastExec.call)
    /\ gl'.img[state'.targets[n].curr.tex] = Drawn(n, lastExec'.call)

\* C29: in a successful frame that follows a successful frame of the same
\* resolution, the pair of every render-pass node of the plan is swapped
\* once before the draw: the target written is not the one written in the
\* frame before, `prev` holds the image of the frame before and `curr`
\* the image of this frame.
PingPongSwappedOncePerFrame ==
    [][(SecondOfTwoFrames /\ lastExec'.frame = lastExec.frame) =>
          \A n \in Range(lastExec'.plan.nodes) :
              node_is_render_pass(nodes[n].kind) => SwappedOnce(n)]_vars

\* The key of the text node n resolved to in the call that lastExec records.
ResolvedKey(n, exec) == ProgramKey(resolve_shader(n, exec.props).shader)

\* C30: in every step before destroy each entry of the program cache stays
\* with its program, a text is compiled only when its key is new to the
\* cache, and a node's binding changes only to another key; after a
\* successful frame every node drawn is bound to the key its text resolved
\* to and to the program cached under that key, which for a text used
\* before is the program first compiled for it.
ProgramCacheOnlyGrows ==
    [][lastExec'.op # "destroy" =>
          /\ \A k \in DOMAIN state.program_cache :
                /\ k \in DOMAIN state'.program_cache
                /\ state'.program_cache[k] = state.program_cache[k]
          /\ Len(gl'.compiled) - Len(gl.compiled)
                = Cardinality(DOMAIN state'.program_cache
                                \ DOMAIN state.program_cache)
          /\ \A n \in DOMAIN state.programs :
                /\ n \in DOMAIN state'.programs
                /\ state'.programs[n] # state.programs[n] =>
                      /\ lastExec'.call = lastExec.call + 1
                      /\ state'.programs[n].key # state.programs[n].key
          /\ (lastExec'.call = lastExec.call + 1 /\ lastExec'.ok) =>
                \A i \in DOMAIN lastExec'.draws :
                    LET n == lastExec'.draws[i].node
                        k == ResolvedKey(n, lastExec')
                    IN  /\ state'.programs[n].key = k
                        /\ state'.programs[n].program = state'.program_cache[k]
                        /\ lastExec'.draws[i].program = state'.program_cache[k]
                        /\ k \in DOMAIN state.program_cache =>
                              state'.programs[n].program = state.program_cache[k]]_vars

\* C30 witness: the one pass of the graph ran fragA, then fragB, then fragA
\* again: two texts were compiled, fragA first, and in the third frame the
\* pass is drawn with the program compiled first.
BackToFirstProgram ==
    /\ lastExec.call = 3 /\ lastExec.ok
    /\ Cardinality(PassNodes) = 1
    /\ Len(gl.compiled) = 2
    /\ gl.compiled[1].frag = "fragA" /\ gl.compiled[2].frag = "fragB"
    /\ \A n \in PassNodes :
          /\ lastExec.props.shader_sources[n].frag = "fragA"
          /\ state.programs[n].program
                = state.program_cache[ProgramKey(gl.compiled[1])]
          /\ \A k \in DOMAIN state.program_cache :
                k # ProgramKey(gl.compiled[1]) =>
                    state.program_cache[k] > state.programs[n].program

----------------------------------------------------------------------------
(* Properties of the streaming source.                                     *)

\* The step is an execute_plan call.
FrameStep == lastExec'.call = lastExec.call + 1

\* The session of node n and what its texture holds are as they were.
VideoNodeUnchanged(n) ==
    /\ state'.video_nodes[n] = state.video_nodes[n]
    /\ gl'.img[state'.video_nodes[n].tex] = gl.img[state.video_nodes[n].tex]

\* C31: in a frame whose time maps to an index that is not greater than the
\* index uploaded last, the decoder of a streaming node is not polled and
\* its session and image stay as they are; the index uploaded last never
\* decreases.
PausedTimeUploadsNothing ==
    [][\A n \in DOMAIN state.video_nodes :
          /\ n \in DOMAIN state'.video_nodes
          /\ state'.video_nodes[n].last_frame_index
                >= state.video_nodes[n].last_frame_index
          /\ (/\ FrameStep
              /\ (IF lastExec'.frame.time < 0 THEN 0 ELSE lastExec'.frame.time)
                     * state.video_nodes[n].fps
                  <= state.video_nodes[n].last_frame_index) =>
                /\ n \notin Range(lastExec'.polls)
                /\ VideoNodeUnchanged(n)]_vars

\* C31 witness: a frame was uploaded at time 1; the third call, at time 0,
\* polled nothing and the texture still holds the upload of the second.
TimeWentBack ==
    /\ lastExec.call = 3 /\ lastExec.ok
    /\ lastExec.frame.time = 0
    /\ lastExec.polls = <<>>
    /\ \E n \in DOMAIN state.video_nodes :
          /\ state.video_nodes[n].last_frame_index >= 1
          /\ gl.img[state.video_nodes[n].tex] = Drawn(n, 2)

\* The errors execute_plan returns for a streaming source.
VideoErrors ==
    {"VideoDecodeSource node requires video_decode entry",
     "video decode (cfg): width/height must be > 0",
     "video decode (cfg): fps must be > 0",
     "VideoDecodeSource missing decoded texture"}

\* C32: a frame run while the decoder of a streaming node has no frame
\* ends as it would have with a frame, without an error of the source;
\* when it succeeds the decoder was polled, and the node's image and the
\* index uploaded last are as they were, so that the next frame polls
\* again.
NoFrameYetIsNoFailure ==
    [][FrameStep =>
          \A n \in DOMAIN state'.video_nodes :
              ~state'.video_nodes[n].latest =>
                 /\ lastExec'.err \notin VideoErrors
                 /\ state'.video_nodes[n].last_frame_index = -1
                 /\ gl'.img[state'.video_nodes[n].tex] = Undefined
                 /\ lastExec'.ok => n \in Range(lastExec'.polls)
                 /\ n \in DOMAIN state.video_nodes =>
                       /\ VideoNodeUnchanged(n)
                       /\ lastExec'.ok =
                             execute_plan(
                                 [state EXCEPT !.video_nodes[n].latest = TRUE],
                                 gl, lastExec'.plan, lastExec'.props,
                                 lastExec'.frame, lastExec'.call).ok]_vars

\* C32 witness: two frames succeeded while the decoder had no frame; both
\* polled it and the output was drawn.
TwoFramesWithoutVideo ==
    /\ lastExec.call = 2 /\ lastExec.ok
    /\ lastExec.draws # <<>>
    /\ \E n \in DOMAIN state.video_nodes :
          /\ ~state.video_nodes[n].latest
          /\ lastExec.polls = <<n>>
          /\ state.video_nodes[n].last_frame_index = -1

----------------------------------------------------------------------------
(* Properties of the tap before its history has filled.                    *)

\* C33: after k outputs of one size were handed to the tap, tex_at(age) is
\* None for every age that no captured frame stands for, that is whenever
\* k < age + 1.
TexAtNoneBeforeFilled ==
    (lastSink.op = "tap_consume" /\ ConstantSize) =>
        \A age \in 0..MaxTapLen :
            Len(lastSink.log) < age + 1 => tex_at(tap, age) = 0

----------------------------------------------------------------------------
(* Properties of a failed consume_named.                                   *)

\* C39: a consume_named that returns an error has handed nothing to any
\* sink: what every sink has consumed is what it had consumed before the
\* call.
ConsumeNamedAllOrNothing ==
    [][(lastSink'.op = "consume_named"
        /\ lastSink'.count = lastSink.count + 1
        /\ ~lastSink'.ok) => sink_calls' = sink_calls]_vars

----------------------------------------------------------------------------
(* Properties of a failed frame.                                           *)

\* C38: an execute_plan call that returns an error has neither swapped nor
\* drawn into the pair of any node: `curr` and `prev` are the targets they
\* were before the call and hold the images they held.
FailedFrameKeepsHistory ==
    [][(FrameStep /\ ~lastExec'.ok) =>
          \A n \in DOMAIN state.targets :
              /\ n \in DOMAIN state'.targets
              /\ state'.targets[n] = state.targets[n]
              /\ gl'.img[state.targets[n].curr.tex]
                    = gl.img[state.targets[n].curr.tex]
              /\ gl'.img[state.targets[n].prev.tex]
                    = gl.img[state.targets[n].prev.tex]]_vars

----------------------------------------------------------------------------
(* Properties of edges between render passes.                              *)

\* The inputs of node d bound on the channel of the port edge i ends in, in
\* the call that exec records.
BoundOnEdge(exec, d, i) ==
    {b \in Range(exec.binds[d]) :
        b.ch = ChannelOfName(PortName(d, edges[i].to.port))}

\* C37: in every execute_plan call, for every node D drawn and every edge
\* into D from another render pass U, D has one input bound for the edge
\* when U comes before D in the plan, and it is the image U drew in this
\* call, in the target that is U's `curr` after the call; when U comes
\* after D and was drawn in the call before, D has one input bound for the
\* edge and it is the image U drew in the call before, in the target that
\* is U's `prev` once U has been drawn in this call.
EdgeSamplesThisOrPreviousFrame ==
    [][FrameStep =>
          \A d \in DOMAIN lastExec'.binds :
              \A i \in EdgesInto(d) :
                  LET u == edges[i].from.node
                      c == lastExec'.call
                      bound == BoundOnEdge(lastExec', d, i)
                  IN  (IsPass(u) /\ u # d) =>
                         /\ u < d =>
                               /\ Cardinality(bound) = 1
                               /\ \A b \in bound :
                                     /\ b.img = Drawn(u, c)
                                     /\ b.tex = state'.targets[u].curr.tex
                         /\ (u > d /\ u \in DOMAIN lastExec.binds) =>
                               /\ Cardinality(bound) = 1
                               /\ \A b \in bound :
                                     /\ b.img = Drawn(u, c - 1)
                                     /\ u \in DOMAIN lastExec'.binds =>
                                           b.tex = state'.targets[u].prev.tex]_vars

\* C37 witness: in a second frame a pass has sampled, through a back edge,
\* the image a later pass drew in the first frame and, through a forward
\* edge, another pass has sampled what the first drew in the second frame.
BackEdgeSampledLastFrame ==
    /\ Succeeded("execute_plan")
    /\ lastExec.call = 2
    /\ \E d, u \in DOMAIN lastExec.binds :
          /\ d < u
          /\ \E i \in EdgesInto(d) :
                /\ edges[i].from.node = u
                /\ \E b \in BoundOnEdge(lastExec, d, i) : b.img = Drawn(u, 1)
          /\ \E j \in EdgesInto(u) :
                /\ edges[j].from.node = d
                /\ \E b \in BoundOnEdge(lastExec, u, j) : b.img = Drawn(d, 2)

----------------------------------------------------------------------------
(* Properties of a plan kept while its graph is wired further.             *)

\* C36: the inputs bound in a call are those of the edges of the plan it
\* was given: every input of a node drawn is on the channel of a port that
\* an edge of the plan ends in, whatever edges the graph has by then.
BindingsFollowPlanEdges ==
    lastExec.op = "execute_plan" =>
        \A d \in DOMAIN lastExec.binds :
            \A k \in DOMAIN lastExec.binds[d] :
                \E e \in Range(lastExec.plan.edges) :
                    /\ e.to.node = d
                    /\ ChannelOfName(PortName(d, e.to.port))
                          = lastExec.binds[d][k].ch

----------------------------------------------------------------------------
(* Properties of the control layer.                                        *)

\* The f32 x is a number from lo to hi.
Within(x, lo, hi) == x.k = "fin" /\ lo <= x.v /\ x.v <= hi

\* C35: whatever keys were pressed and messages received, brightness is
\* within [-2, 2], contrast and saturation are within [0, 4] and norm_pos
\* is within [0, 1].
ControlsStayInRange ==
    /\ Within(layer.color.brightness, -2, 2)
    /\ Within(layer.color.contrast, 0, 4)
    /\ Within(layer.color.saturation, 0, 4)
    /\ Within(layer.transport.norm_pos, 0, 1)

----------------------------------------------------------------------------
(* Properties of the video decoder.                                        *)

\* C34: poll_rgba can be called whatever the worker does, and every call
\* returns at once: NoFrameYet when no frame has been published, else the
\* whole frame published last; so once a frame has been published no poll
\* returns NoFrameYet, the worker having returned or not.
PollReturnsLatestFrame ==
    [][decoder'.polls = decoder.polls + 1 =>
          LET ret == decoder'.ret[1]
          IN  /\ decoder.published = <<>> =>
                    ~ret.ok /\ ret.err = "NoFrameYet"
              /\ decoder.published # <<>> =>
                    /\ ret.ok
                    /\ ret.frame = <<decoder.published[Len(decoder.published)]>>
              /\ decoder'.latest = decoder.latest
              /\ decoder'.worker = decoder.worker]_vars

\* C34 witness: a poll made after the worker returned at the end of a
\* stream that does not loop gave the second, and last, frame published.
PolledAfterEndOfStream ==
    /\ decoder.polls > 0
    /\ decoder.worker = "exited" /\ decoder.exit = "eof"
    /\ ~decoder.stop
    /\ Len(decoder.published) = 2
    /\ decoder.ret = <<[ok |-> TRUE, err |-> "",
                        frame |-> <<VideoFrame(decoder.cfg, 2)>>]>>

\* C40: a worker that has returned holds no running child, every child
\* spawned having been killed and reaped; and once the stop flag is set
\* the worker returns and the join of drop returns.
WorkerStopsAfterDrop ==
    /\ [](decoder.worker = "exited" =>
            /\ decoder.child # "running"
            /\ decoder.reaped = decoder.spawned)
    /\ (decoder.stop ~> (decoder.worker = "exited" /\ decoder.joined))

\* C40 witness: the flag was set while the worker read frames from the
\* child; the child has been killed and reaped, the worker has returned
\* and drop has joined it.
JoinedAfterKillingChild ==
    /\ decoder.joined
    /\ decoder.exit = "stop_at_read"
    /\ decoder.child = "reaped"
    /\ decoder.published # <<>>

====
